---- MODULE Spec2Model ----
(***************************************************************************)
(* Model of the law_ai ingestion pipeline (scripts/ingest.py,              *)
(* scripts/init_db.py, scripts/search.py, scripts/generate_embeddings.py): *)
(* the chunker, the region hierarchy resolver and jurisdiction enricher,   *)
(* and the PostgreSQL upserts of documents and chunks.                     *)
(*                                                                         *)
(* Several specifications share the module:                                *)
(*   SpecChunk   chunk_text, one loop iteration per step                   *)
(*   SpecRegion  load_regions, load_regions_cache, get_region_hierarchy,   *)
(*               get_region_hierarchy_ids, enrich_with_jurisdiction        *)
(*   Spec        ingest_to_postgres and the embedding pass on the store    *)
(*   SpecSearch  build_jurisdiction_filter and search_vector               *)
(*   SpecCli     main of search.py and search_laws of the chat client      *)
(*   SpecWriter  main of ingest.py with interrupted transactions           *)
(*   SpecEmbed   main of generate_embeddings.py with failing calls         *)
(*   SpecLoad    main of init_db.py, load_regions run again and again      *)
(*   SpecConcurrent    two ingest processes writing to one store           *)
(*   SpecCreateChunks  create_chunks called twice on a document            *)
(*   SpecUpsert  documents with metadata ingested again under their cite   *)
(*   SpecCache   the resolver cache while the region store changes         *)
(***************************************************************************)
EXTENDS Integers, Sequences, FiniteSets, Bags, TLC

VARIABLES
    \* ---- chunk_text (ingest.py:276-307): arguments, locals, position
    ct_words,        \* words = text.split()
    ct_max_words,    \* max_words
    ct_overlap,      \* overlap_words
    ct_start,        \* start
    ct_chunks,       \* chunks (each chunk kept as its word sequence)
    ct_pc,           \* "idle" | "loop" | "done"
    \* ---- the region graph store (init_db.py:77-111)
    regions,                \* ids of the rows of table regions
    region_relationships,   \* rows of table region_relationships
    \* ---- the resolver cache of the ingest process (ingest.py:61-63)
    cache_loaded,           \* _regions_cache is not None
    regions_cache,          \* keys of _regions_cache
    relationships_cache,    \* _relationships_cache: child_id -> list of edges
    \* ---- get_region_hierarchy (ingest.py:101-144): locals, position
    gh_region_id, gh_hierarchy, gh_visited, gh_current_id,
    gh_pc,                  \* "idle" | "walk" | "done"
    \* ---- get_region_hierarchy_ids (search.py:56-102): locals, position
    gi_region_id, gi_hierarchy, gi_visited, gi_current_id,
    gi_pc,                  \* "idle" | "walk" | "done"
    \* ---- enrich_with_jurisdiction (ingest.py:207-269)
    en_doc,                 \* the document after enrichment
    en_pc,                  \* "idle" | "done"
    \* ---- the document store (init_db.py:119-180)
    documents,              \* rows of table documents, a bag
    chunks,                 \* rows of table chunks, a bag
    \* ---- generate_embeddings.py main: the rows it selected, position
    em_chunks,              \* chunks = get_chunks_without_embeddings(...)
    em_pc,                  \* "idle" | "selected"
    \* ---- history: what has been ingested under each cite so far
    ingested,               \* cite -> "never" | "once" | "again" | "changed",
                            \* and the text ingested last
    \* ---- build_jurisdiction_filter (search.py:105-189): arguments, result
    bf_region_id, bf_include_parents,
    bf_filter,              \* the Filter returned
    bf_pc,                  \* "idle" | "done"
    \* ---- search_vector (search.py:192-251): arguments, locals, result
    sv_source_filter, sv_region_filter,
    sv_jurisdiction_filter, \* jurisdiction_filter
    sv_search_filter,       \* search_filter, the query_filter of client.search
    sv_results,             \* results
    sv_pc,                  \* "idle" | "done"
    \* ---- main (search.py:376-419) and table search_history
    search_history,         \* rows of search_history, oldest first
    sm_query,               \* args.query
    sm_printed,             \* print_results has run
    sm_exit,                \* "None" | "0" | "raised"
    \* ---- search_laws (lawbot/cli/search.py:68-213)
    sl_use_vector_search,   \* use_vector_search
    sl_results,             \* formatted, or [] from the outer except
    sl_raised,              \* an exception left search_laws
    sl_region,              \* config.region
    sl_connected,           \* psycopg2.connect returned
    sl_pc,                  \* "idle" | "done"
    \* ---- main, ingest_file, ingest_to_postgres of ingest.py, run stepwise
    im_pc,                  \* "idle" | "running" | "tx" | "exited"
    im_remaining,           \* files of the loop not yet handled
    im_succeeded,           \* files ingested by this process
    im_exit,                \* "None" | "0" | "1" | "raised"
    tx_docs,                \* docs of ingest_to_postgres
    tx_chunks,              \* chunks of ingest_to_postgres
    tx_done,                \* INSERT statements executed by the last run
    \* ---- main of generate_embeddings.py, run stepwise
    ge_pc,                  \* "idle" | "loaded" | "embedded" | "exited"
    ge_batch_size,          \* args.batch_size
    ge_chunks,              \* chunks, in the order of the SELECT
    ge_embeddings,          \* embeddings, None for a failed batch
    ge_successful,          \* successful of update_embeddings
    ge_failed,              \* failed of update_embeddings
    ge_exit,                \* "None" | "0" | "1" | "raised"
    \* ---- main of init_db.py
    idb_data,               \* data = json.load(f) of load_regions
    idb_error,              \* "None" | "ForeignKeyViolation": what main caught
    idb_exit,               \* "None" | "0" | "1"
    \* ---- two ingest processes on one store (ingest.py:347-433)
    cw_pc,                  \* process -> "idle" | "tx" | "done" | "raised"
    cw_docs,                \* process -> docs of its ingest_to_postgres
    cw_next,                \* process -> INSERTs it has executed
    \* ---- create_chunks (ingest.py:310-340) called twice on one document
    cc_doc,                 \* doc
    cc_first,               \* the chunks of the first call
    cc_second,              \* the chunks of the second call
    cc_pc,                  \* "idle" | "once" | "twice"
    \* ---- the dicts of _regions_cache and the list a lookup returned
    rc_heap,                \* region id -> the dict _regions_cache holds for it
    rh_result,              \* the list get_region_hierarchy returned
    rh_pc                   \* "idle" | "done"

chunkVars == <<ct_words, ct_max_words, ct_overlap, ct_start, ct_chunks, ct_pc>>
graphVars == <<regions, region_relationships>>
cacheVars == <<cache_loaded, regions_cache, relationships_cache>>
ghVars == <<gh_region_id, gh_hierarchy, gh_visited, gh_current_id, gh_pc>>
giVars == <<gi_region_id, gi_hierarchy, gi_visited, gi_current_id, gi_pc>>
enVars == <<en_doc, en_pc>>
regionVars == <<graphVars, cacheVars, ghVars, giVars, enVars>>
storeVars == <<documents, chunks>>
emVars == <<em_chunks, em_pc>>
ingestVars == <<storeVars, emVars, ingested>>
bfVars == <<bf_region_id, bf_include_parents, bf_filter, bf_pc>>
svVars == <<sv_source_filter, sv_region_filter, sv_jurisdiction_filter,
            sv_search_filter, sv_results, sv_pc>>
smVars == <<search_history, sm_query, sm_printed, sm_exit>>
slVars == <<sl_use_vector_search, sl_results, sl_raised, sl_region,
            sl_connected, sl_pc>>
searchVars == <<bfVars, svVars, smVars, slVars>>
imVars == <<im_pc, im_remaining, im_succeeded, im_exit, tx_docs, tx_chunks, tx_done>>
geVars == <<ge_pc, ge_batch_size, ge_chunks, ge_embeddings, ge_successful,
            ge_failed, ge_exit>>
idbVars == <<idb_data, idb_error, idb_exit>>
cwVars == <<cw_pc, cw_docs, cw_next>>
ccVars == <<cc_doc, cc_first, cc_second, cc_pc>>
rhVars == <<rc_heap, rh_result, rh_pc>>
toolVars == <<idbVars, cwVars, ccVars, rhVars>>
batchVars == <<imVars, geVars, toolVars>>

vars == <<chunkVars, regionVars, ingestVars, searchVars, batchVars>>

Min(a, b) == IF a <= b THEN a ELSE b
Max(a, b) == IF a >= b THEN a ELSE b

(***************************************************************************)
(* Bounds of the chunker's inputs.                                         *)
(***************************************************************************)
MaxTextLen == 5      \* longest enumerated text, in words
MaxMaxWords == 3     \* largest enumerated max_words
MaxOverlap == 3      \* largest enumerated overlap_words
MaxLoopIters == 6    \* cap on loop iterations of a call that never ends
VocabSize == 2       \* distinct words in the enumerated texts

Vocab == 1..VocabSize

RECURSIVE SeqsUpTo(_, _)
SeqsUpTo(S, n) ==
    IF n = 0 THEN {<<>>}
    ELSE LET shorter == SeqsUpTo(S, n - 1)
         IN  shorter \cup {Append(s, x) : s \in {t \in shorter : Len(t) = n - 1}, x \in S}

\* chunk_text's defaults (max_words: int = 750, overlap_words: int = 75).
DefaultMaxWords == 750
DefaultOverlapWords == 75
\* The 2000-word text of the worked example, every word distinct.
LongText == [i \in 1..2000 |-> i]

ChunkInputs ==
    {[words |-> w, max_words |-> m, overlap_words |-> o] :
        w \in SeqsUpTo(Vocab, MaxTextLen), m \in 1..MaxMaxWords, o \in 0..MaxOverlap}
    \cup {[words |-> LongText, max_words |-> DefaultMaxWords,
           overlap_words |-> DefaultOverlapWords]}

(***************************************************************************)
(* The region graph store: tables regions and region_relationships         *)
(***************************************************************************)
MaxEdges == 2        \* most rows of region_relationships

\* The regions of the reference data that detect_region_from_source can name.
RegionIds == {"GA", "GA-GWINNETT", "GA-FULTON", "GA-ATLANTA"}

\* regions.type of each id as the reference data has it.
TypeOf(id) ==
    CASE id = "US" -> "COUNTRY"
      [] id = "GA" -> "STATE"
      [] id \in {"GA-GWINNETT", "GA-FULTON"} -> "COUNTY"
      [] OTHER -> "CITY"

\* coverage_percentage values of the enumerated edges
Coverages == {30, 70}

Relationships ==
    [child_id : RegionIds, parent_id : RegionIds,
     is_primary : BOOLEAN, coverage_percentage : Coverages]

\* The descriptions load_regions is given: one region, or one relationship.
Descriptions ==
    {[regions |-> {r}, relationships |-> <<>>] : r \in RegionIds}
    \cup {[regions |-> {}, relationships |-> <<e>>] : e \in Relationships}

Range(s) == {s[i] : i \in 1..Len(s)}

\* INSERT ... ON CONFLICT (child_id, parent_id) DO UPDATE
UpsertRelationship(rels, e) ==
    {f \in rels : ~(f.child_id = e.child_id /\ f.parent_id = e.parent_id)} \cup {e}

RECURSIVE UpsertRelationships(_, _)
UpsertRelationships(rels, list) ==
    IF list = <<>> THEN rels
    ELSE UpsertRelationships(UpsertRelationship(rels, Head(list)), Tail(list))

\* child_id and parent_id REFERENCES regions(id)
ForeignKeysHold(regs, list) ==
    \A e \in Range(list) : e.child_id \in regs /\ e.parent_id \in regs

\* load_regions: the regions, then the relationships, upserted in one
\* transaction; a foreign-key violation raises before the commit and the
\* connection is dropped with nothing written.
load_regions(data) ==
    /\ LET regs == regions \cup data.regions
           rels == UpsertRelationships(region_relationships, data.relationships)
       IN  IF ForeignKeysHold(regs, data.relationships)
           THEN /\ Cardinality(rels) <= MaxEdges
                /\ regions' = regs
                /\ region_relationships' = rels
           ELSE UNCHANGED graphVars
    /\ UNCHANGED <<batchVars, searchVars, chunkVars, cacheVars, ghVars, giVars, enVars, ingestVars>>

(***************************************************************************)
(* main of init_db.py: load_regions inside try/except, exit status         *)
(***************************************************************************)
\* The relationships of the descriptions main is run on.
LoadRelationships ==
    {[child_id |-> "GA-ATLANTA", parent_id |-> p, is_primary |-> b,
      coverage_percentage |-> 70] : p \in {"GA-FULTON", "GA-GWINNETT"}, b \in BOOLEAN}
    \cup {[child_id |-> "GA-FULTON", parent_id |-> "GA", is_primary |-> b,
           coverage_percentage |-> 70] : b \in BOOLEAN}

\* The files load_regions reads: at most one region, a list of relationships.
LoadDescriptions ==
    {[regions |-> R, relationships |-> l] :
        R \in {{}} \cup {{r} : r \in RegionIds},
        l \in SeqsUpTo(LoadRelationships, MaxEdges)}

NoDescription == [regions |-> {}, relationships |-> <<>>]

\* The relationships INSERTed before the first one that violates a foreign
\* key, all of them if none does.
RECURSIVE lr_Executed(_, _)
lr_Executed(regs, list) ==
    IF list = <<>> \/ ~ForeignKeysHold(regs, <<Head(list)>>) THEN <<>>
    ELSE <<Head(list)>> \o lr_Executed(regs, Tail(list))

lr_Outcome_Autocommit(regs_table, rels_table, data) ==
    LET regs == regs_table \cup data.regions
        done == lr_Executed(regs, data.relationships)
    IN  [regions |-> regs,
         region_relationships |-> UpsertRelationships(rels_table, done),
         error |-> IF done = data.relationships THEN "None"
                   ELSE "ForeignKeyViolation"]
\* load_regions (init_db.py:216-287): every INSERT runs in the transaction
\* psycopg2 opens at the first execute; conn.commit() at line 283 is the only
\* commit. The INSERT of a relationship whose child_id or parent_id is not in
\* regions raises ForeignKeyViolation out of load_regions: the commit is not
\* reached and the tables stay as they were.
lr_Outcome(regs_table, rels_table, data) ==
    LET regs == regs_table \cup data.regions
        done == lr_Executed(regs, data.relationships)
    IN  IF done = data.relationships
        THEN [regions |-> regs,
              region_relationships |-> UpsertRelationships(rels_table, done),
              error |-> "None"]
        ELSE [regions |-> regs_table, region_relationships |-> rels_table,
              error |-> "ForeignKeyViolation"]

\* main (init_db.py:290-309): return 0, or 1 from except Exception.
main_init_db(data) ==
    /\ idb_exit = "None"
    /\ LET out == lr_Outcome(regions, region_relationships, data)
       IN  /\ Cardinality(out.region_relationships) <= MaxEdges
           /\ regions' = out.regions
           /\ region_relationships' = out.region_relationships
           /\ idb_error' = out.error
           /\ idb_exit' = IF out.error = "None" THEN "0" ELSE "1"
    /\ idb_data' = data
    /\ UNCHANGED <<chunkVars, cacheVars, ghVars, giVars, enVars, ingestVars,
                   searchVars, imVars, geVars, cwVars, ccVars, rhVars>>

\* sys.exit(main()): the process ends, the next run starts afresh.
main_init_db_exit ==
    /\ idb_exit # "None"
    /\ idb_exit' = "None" /\ idb_error' = "None" /\ idb_data' = NoDescription
    /\ UNCHANGED <<chunkVars, regionVars, ingestVars, searchVars, imVars, geVars,
                   cwVars, ccVars, rhVars>>

InitInitDbVars ==
    idb_exit = "None" /\ idb_error = "None" /\ idb_data = NoDescription

(***************************************************************************)
(* load_regions_cache                                                      *)
(***************************************************************************)
RECURSIVE AllOrders(_)
AllOrders(S) ==
    IF S = {} THEN {<<>>}
    ELSE UNION {{<<x>> \o p : p \in AllOrders(S \ {x})} : x \in S}

RelOrder_CoverageOnly(a, b) == a.coverage_percentage >= b.coverage_percentage
RelOrder_PrimaryLast(a, b) ==
    \/ (~a.is_primary /\ b.is_primary)
    \/ (a.is_primary = b.is_primary /\ a.coverage_percentage >= b.coverage_percentage)
\* ORDER BY is_primary DESC, coverage_percentage DESC: a may come before b
RelOrder(a, b) ==
    \/ (a.is_primary /\ ~b.is_primary)
    \/ (a.is_primary = b.is_primary /\ a.coverage_percentage >= b.coverage_percentage)

\* The row orders the SELECT may return: rows that tie come in any order.
OrderedRows(rels) ==
    {rows \in AllOrders(rels) :
        \A i, j \in 1..Len(rows) : i < j => RelOrder(rows[i], rows[j])}

CacheEntry(row) ==
    [parent_id |-> row.parent_id, is_primary |-> row.is_primary,
     coverage |-> row.coverage_percentage]

RECURSIVE EntriesOf(_, _)
\* the rows of one child, in the order of the result set
EntriesOf(rows, child) ==
    IF rows = <<>> THEN <<>>
    ELSE IF Head(rows).child_id = child
         THEN <<CacheEntry(Head(rows))>> \o EntriesOf(Tail(rows), child)
         ELSE EntriesOf(Tail(rows), child)

load_regions_cache_Reload ==
    /\ gh_pc = "idle" /\ gi_pc = "idle" /\ en_pc = "idle"
    /\ cache_loaded' = TRUE
    /\ regions_cache' = regions
    /\ \E rows \in OrderedRows(region_relationships) :
         relationships_cache' =
            [c \in {r.child_id : r \in Range(rows)} |-> EntriesOf(rows, c)]
    /\ UNCHANGED <<batchVars, searchVars, chunkVars, graphVars, ghVars, giVars, enVars, ingestVars>>
\* if _regions_cache is not None: return -- else both caches are filled.
load_regions_cache ==
    /\ gh_pc = "idle" /\ gi_pc = "idle" /\ en_pc = "idle"
    /\ IF cache_loaded
       THEN UNCHANGED cacheVars
       ELSE /\ cache_loaded' = TRUE
            /\ regions_cache' = regions
            /\ \E rows \in OrderedRows(region_relationships) :
                 relationships_cache' =
                    [c \in {r.child_id : r \in Range(rows)} |-> EntriesOf(rows, c)]
    /\ UNCHANGED <<batchVars, searchVars, chunkVars, graphVars, ghVars, giVars, enVars, ingestVars>>

(***************************************************************************)
(* get_region_hierarchy (ingest.py)                                        *)
(***************************************************************************)
MaxWalk == 8         \* cap on the length of a hierarchy under construction

gh_Locals(hierarchy, visited, current_id, done) ==
    [hierarchy |-> hierarchy, visited |-> visited, current_id |-> current_id,
     done |-> done]

gh_Start_NoUnknownCheck(region_id) == gh_Locals(<<region_id>>, {}, region_id, FALSE)
\* lines 111-121: [] for an id the cache does not have, else [region] and the
\* walk starts at region_id
gh_Start(region_id) ==
    IF region_id \notin regions_cache
    THEN gh_Locals(<<>>, {}, region_id, TRUE)
    ELSE gh_Locals(<<region_id>>, {}, region_id, FALSE)

gh_Step_NoVisited(st) ==
    IF st.current_id \notin DOMAIN relationships_cache
    THEN [st EXCEPT !.done = TRUE]
    ELSE LET parents == relationships_cache[st.current_id]
             parent_id == parents[1].parent_id
         IN  IF parent_id \notin regions_cache THEN [st EXCEPT !.done = TRUE]
             ELSE gh_Locals(<<parent_id>> \o st.hierarchy,
                            st.visited \cup {st.current_id}, parent_id, FALSE)
gh_Step_Append(st) ==
    IF st.current_id \notin DOMAIN relationships_cache THEN [st EXCEPT !.done = TRUE]
    ELSE IF st.current_id \in st.visited THEN [st EXCEPT !.done = TRUE]
    ELSE LET parents == relationships_cache[st.current_id]
             parent_id == parents[1].parent_id
         IN  IF parent_id \notin regions_cache
             THEN [st EXCEPT !.done = TRUE, !.visited = @ \cup {st.current_id}]
             ELSE gh_Locals(Append(st.hierarchy, parent_id),
                            st.visited \cup {st.current_id}, parent_id, FALSE)
\* lines 122-142: one iteration of `while True`
gh_Step(st) ==
    IF st.current_id \notin DOMAIN relationships_cache THEN [st EXCEPT !.done = TRUE]
    ELSE IF st.current_id \in st.visited THEN [st EXCEPT !.done = TRUE]
    ELSE LET visited == st.visited \cup {st.current_id}
             parents == relationships_cache[st.current_id]
         IN  IF parents = <<>> THEN [st EXCEPT !.done = TRUE, !.visited = visited]
             ELSE LET parent_id == parents[1].parent_id
                  IN  IF parent_id \notin regions_cache
                      THEN [st EXCEPT !.done = TRUE, !.visited = visited]
                      ELSE gh_Locals(<<parent_id>> \o st.hierarchy, visited,
                                     parent_id, FALSE)

\* get_region_hierarchy, called by the command line or a test
get_region_hierarchy_call(region_id) ==
    /\ cache_loaded
    /\ gh_pc = "idle" /\ gi_pc = "idle" /\ en_pc = "idle"
    /\ LET st == gh_Start(region_id)
       IN  /\ gh_region_id' = region_id
           /\ gh_hierarchy' = st.hierarchy
           /\ gh_visited' = st.visited
           /\ gh_current_id' = st.current_id
           /\ gh_pc' = IF st.done THEN "done" ELSE "walk"
    /\ UNCHANGED <<batchVars, searchVars, chunkVars, graphVars, cacheVars, giVars, enVars, ingestVars>>

get_region_hierarchy_loop ==
    /\ gh_pc = "walk"
    /\ Len(gh_hierarchy) < MaxWalk
    /\ LET st == gh_Step(gh_Locals(gh_hierarchy, gh_visited, gh_current_id, FALSE))
       IN  /\ gh_hierarchy' = st.hierarchy
           /\ gh_visited' = st.visited
           /\ gh_current_id' = st.current_id
           /\ gh_pc' = IF st.done THEN "done" ELSE "walk"
    /\ UNCHANGED <<batchVars, searchVars, chunkVars, graphVars, cacheVars, gh_region_id, giVars, enVars, ingestVars>>

\* return hierarchy
get_region_hierarchy_return ==
    /\ gh_pc = "done"
    /\ gh_pc' = "idle"
    /\ gh_region_id' = "None" /\ gh_hierarchy' = <<>>
    /\ gh_visited' = {} /\ gh_current_id' = "None"
    /\ UNCHANGED <<batchVars, searchVars, chunkVars, graphVars, cacheVars, giVars, enVars, ingestVars>>

RECURSIVE gh_Run(_)
gh_Run(st) ==
    IF st.done \/ Len(st.hierarchy) >= MaxWalk THEN st ELSE gh_Run(gh_Step(st))

\* get_region_hierarchy as enrich_with_jurisdiction calls it: the ids of the
\* returned records, root first
get_region_hierarchy(region_id) == gh_Run(gh_Start(region_id)).hierarchy

(***************************************************************************)
(* get_all_parent_counties, detect_region_from_source,                     *)
(* enrich_with_jurisdiction (ingest.py)                                    *)
(***************************************************************************)
IsCountyEntry(rel) ==
    rel.parent_id \in regions_cache /\ TypeOf(rel.parent_id) = "COUNTY"

\* the COUNTY parents of region_id, in cache order
get_all_parent_counties(region_id) ==
    IF region_id \notin DOMAIN relationships_cache THEN <<>>
    ELSE SelectSeq(relationships_cache[region_id], IsCountyEntry)

\* A document as ingest_file hands it over: its source type, the municipality
\* names its jurisdiction text contains, whether its court text contains 'ga'.
SourceDocuments ==
    {[source |-> "GA_CODE", jurisdiction |-> {}, court_ga |-> FALSE],
     [source |-> "COURTLISTENER", jurisdiction |-> {}, court_ga |-> TRUE],
     [source |-> "COURTLISTENER", jurisdiction |-> {"Atlanta"}, court_ga |-> FALSE],
     [source |-> "MUNICODE", jurisdiction |-> {"Gwinnett"}, court_ga |-> FALSE],
     [source |-> "MUNICODE", jurisdiction |-> {"Atlanta"}, court_ga |-> FALSE],
     [source |-> "MUNICODE", jurisdiction |-> {"Atlanta", "Fulton"}, court_ga |-> FALSE]}

detect_region_from_source(doc) ==
    IF doc.source = "GA_CODE" THEN "GA"
    ELSE IF doc.source = "COURTLISTENER" /\ doc.court_ga THEN "GA"
    ELSE IF doc.source = "MUNICODE" /\ "Gwinnett" \in doc.jurisdiction THEN "GA-GWINNETT"
    ELSE IF doc.source = "MUNICODE" /\ "Fulton" \in doc.jurisdiction THEN "GA-FULTON"
    ELSE IF doc.source = "MUNICODE" /\ "Atlanta" \in doc.jurisdiction THEN "GA-ATLANTA"
    ELSE "GA"

\* next((r for r in hierarchy if r['type'] == type), None), as the id
FirstOfType(hierarchy, type) ==
    LET hits == {i \in 1..Len(hierarchy) : TypeOf(hierarchy[i]) = type}
    IN  IF hits = {} THEN "None"
        ELSE hierarchy[CHOOSE i \in hits : \A j \in hits : i <= j]

\* doc[k] = v for each item of fields: the keys of fields take its values,
\* the other keys of doc stay
Stamp(doc, fields) == fields @@ doc

\* lines 223-234: the fallback when the hierarchy is empty
DefaultJurisdiction ==
    [region_type |-> "STATE", region_id |-> "GA",
     applies_to_country |-> "US", applies_to_state |-> "GA",
     applies_to_counties |-> <<>>, primary_county |-> "None",
     applies_to_city |-> "None", jurisdiction_hierarchy |-> <<>>]

\* lines 236-267. None is "None"; applies_to_counties None is <<>> (the code
\* never stores an empty list).
ResolvedJurisdiction(hierarchy) ==
    LET current_region == hierarchy[Len(hierarchy)]
        country == FirstOfType(hierarchy, "COUNTRY")
        state == FirstOfType(hierarchy, "STATE")
        city == FirstOfType(hierarchy, "CITY")
        counties == get_all_parent_counties(city)
        county == FirstOfType(hierarchy, "COUNTY")
        county_ids ==
            IF city # "None"
            THEN [i \in 1..Len(counties) |-> counties[i].parent_id]
            ELSE IF county # "None" THEN <<county>> ELSE <<>>
        primary_county ==
            IF city # "None"
            THEN (IF counties # <<>> THEN counties[1].parent_id ELSE "None")
            ELSE county
    IN  [region_type |-> TypeOf(current_region), region_id |-> current_region,
         applies_to_country |-> country, applies_to_state |-> state,
         applies_to_counties |-> county_ids, primary_county |-> primary_county,
         applies_to_city |-> city, jurisdiction_hierarchy |-> hierarchy]

enrich_with_jurisdiction(doc) ==
    /\ cache_loaded
    /\ gh_pc = "idle" /\ gi_pc = "idle" /\ en_pc = "idle"
    /\ LET region_id == detect_region_from_source(doc)
           hierarchy == get_region_hierarchy(region_id)
       IN  en_doc' = IF hierarchy = <<>>
                     THEN Stamp(doc, DefaultJurisdiction)
                     ELSE Stamp(doc, ResolvedJurisdiction(hierarchy))
    /\ en_pc' = "done"
    /\ UNCHANGED <<batchVars, searchVars, chunkVars, graphVars, cacheVars, ghVars, giVars, ingestVars>>

\* the caller goes on to the next document
enrich_return ==
    /\ en_pc = "done"
    /\ en_pc' = "idle"
    /\ en_doc' = [source |-> "None"]
    /\ UNCHANGED <<batchVars, searchVars, chunkVars, graphVars, cacheVars, ghVars, giVars, ingestVars>>

(***************************************************************************)
(* The records of a hierarchy: get_region_hierarchy returns               *)
(* _regions_cache[id].copy() for each region, each parent's copy updated   *)
(* with the edge that led to it (ingest.py:118-144).                       *)
(***************************************************************************)
\* {'id': ..., 'name': ..., 'type': ...} as load_regions_cache builds it
CacheRecords == [id \in RegionIds |-> [id |-> id, type |-> TypeOf(id)]]

rh_Copy_Alias(heap, id) == [alias |-> TRUE, id |-> id, value |-> heap[id]]
\* _regions_cache[id].copy(): a new dict with the same items
rh_Copy(heap, id) == [alias |-> FALSE, id |-> id, value |-> heap[id]]

\* the dict an entry of the returned list stands for
rh_Value(heap, entry) == IF entry.alias THEN heap[entry.id] ELSE entry.value

\* dict.update(fields) on entry k of the list: it writes to the dict the
\* entry refers to
rh_Write(st, k, fields) ==
    IF st.result[k].alias
    THEN [heap |-> [st.heap EXCEPT ![st.result[k].id] = Stamp(@, fields)],
          result |-> st.result]
    ELSE [heap |-> st.heap,
          result |-> [st.result EXCEPT ![k].value = Stamp(@, fields)]]

RECURSIVE rh_Records(_, _, _)
\* the loop of lines 122-142 along the ids of the hierarchy, leaf first:
\* ids[n] is the region just reached, the record of its parent ids[n - 1]
\* is copied, updated with parents[0] and inserted at the front
rh_Records(st, ids, n) ==
    IF n <= 1 THEN st
    ELSE LET parent_region == rh_Copy(st.heap, ids[n - 1])
             edge == relationships_cache[ids[n]][1]
             inserted == [heap |-> st.heap, result |-> <<parent_region>> \o st.result]
         IN  rh_Records(rh_Write(inserted, 1, edge), ids, n - 1)

\* get_region_hierarchy(region_id), with the records it returns
get_region_hierarchy_records(region_id) ==
    /\ cache_loaded
    /\ gh_pc = "idle" /\ gi_pc = "idle" /\ en_pc = "idle" /\ rh_pc = "idle"
    /\ LET ids == get_region_hierarchy(region_id)
           st == IF ids = <<>> THEN [heap |-> rc_heap, result |-> <<>>]
                 ELSE rh_Records([heap |-> rc_heap,
                                  result |-> <<rh_Copy(rc_heap, ids[Len(ids)])>>],
                                 ids, Len(ids))
       IN  rc_heap' = st.heap /\ rh_result' = st.result
    /\ rh_pc' = "done"
    /\ UNCHANGED <<chunkVars, regionVars, ingestVars, searchVars, imVars, geVars,
                   idbVars, cwVars, ccVars>>

\* the caller changes a record of the list it was given
caller_modify(k) ==
    /\ rh_pc = "done"
    /\ k \in 1..Len(rh_result)
    /\ LET st == rh_Write([heap |-> rc_heap, result |-> rh_result], k,
                          [touched |-> TRUE])
       IN  rc_heap' = st.heap /\ rh_result' = st.result
    /\ UNCHANGED rh_pc
    /\ UNCHANGED <<chunkVars, regionVars, ingestVars, searchVars, imVars, geVars,
                   idbVars, cwVars, ccVars>>

\* the caller drops the list
get_region_hierarchy_records_return ==
    /\ rh_pc = "done"
    /\ rh_pc' = "idle" /\ rh_result' = <<>>
    /\ UNCHANGED rc_heap
    /\ UNCHANGED <<chunkVars, regionVars, ingestVars, searchVars, imVars, geVars,
                   idbVars, cwVars, ccVars>>

InitRecordsVars ==
    rc_heap = CacheRecords /\ rh_result = <<>> /\ rh_pc = "idle"

(***************************************************************************)
(* get_region_hierarchy_ids (search.py), on the same two tables            *)
(***************************************************************************)
\* get_parents: [] for a visited child; else the first row of the join
\* ordered by is_primary DESC only, so among rows that tie on is_primary any
\* one may come first. The set of the lists it may return.
get_parents(child_id, visited) ==
    LET rows == {e \in region_relationships :
                    e.child_id = child_id /\ e.parent_id \in regions}
        firsts == {e \in rows : \A f \in rows : f.is_primary => e.is_primary}
    IN  IF child_id \in visited \/ rows = {} THEN {<<>>}
        ELSE {<<e.parent_id>> : e \in firsts}

get_region_hierarchy_ids_call(region_id) ==
    /\ gh_pc = "idle" /\ gi_pc = "idle" /\ en_pc = "idle"
    /\ gi_region_id' = region_id
    /\ gi_hierarchy' = <<region_id>>
    /\ gi_visited' = {}
    /\ gi_current_id' = region_id
    /\ gi_pc' = "walk"
    /\ UNCHANGED <<batchVars, searchVars, chunkVars, graphVars, cacheVars, ghVars, enVars, ingestVars>>

\* one iteration of `while True`
get_region_hierarchy_ids_loop ==
    /\ gi_pc = "walk"
    /\ Len(gi_hierarchy) < MaxWalk
    /\ \E parents \in get_parents(gi_current_id, gi_visited) :
         /\ gi_visited' = gi_visited \cup {gi_current_id}
         /\ IF parents = <<>>
            THEN gi_pc' = "done" /\ UNCHANGED <<gi_hierarchy, gi_current_id>>
            ELSE /\ gi_hierarchy' = <<parents[1]>> \o gi_hierarchy
                 /\ gi_current_id' = parents[1]
                 /\ gi_pc' = "walk"
    /\ UNCHANGED <<batchVars, searchVars, chunkVars, graphVars, cacheVars, gi_region_id, ghVars, enVars, ingestVars>>

get_region_hierarchy_ids_return ==
    /\ gi_pc = "done"
    /\ gi_pc' = "idle"
    /\ gi_region_id' = "None" /\ gi_hierarchy' = <<>>
    /\ gi_visited' = {} /\ gi_current_id' = "None"
    /\ UNCHANGED <<batchVars, searchVars, chunkVars, graphVars, cacheVars, ghVars, enVars, ingestVars>>

InitRegionVars ==
    /\ regions = {} /\ region_relationships = {}
    /\ cache_loaded = FALSE /\ regions_cache = {}
    /\ relationships_cache = [c \in {} |-> <<>>]
    /\ gh_pc = "idle" /\ gh_region_id = "None" /\ gh_hierarchy = <<>>
    /\ gh_visited = {} /\ gh_current_id = "None"
    /\ gi_pc = "idle" /\ gi_region_id = "None" /\ gi_hierarchy = <<>>
    /\ gi_visited = {} /\ gi_current_id = "None"
    /\ en_pc = "idle" /\ en_doc = [source |-> "None"]

(***************************************************************************)
(* chunk_text                                                              *)
(***************************************************************************)
\* Python's words[a:b]: negative indices count from the end, then both are
\* clamped to 0..len.
PySlice(words, a, b) ==
    LET n  == Len(words)
        lo == IF a < 0 THEN Max(a + n, 0) ELSE Min(a, n)
        hi == IF b < 0 THEN Max(b + n, 0) ELSE Min(b, n)
    IN  SubSeq(words, lo + 1, hi)

\* end = min(start + max_words, len(words))
ct_End(start, max_words, n) == Min(start + max_words, n)

ct_NextStart_NoOverlap(end, overlap_words) == end
ct_NextStart_OffByOne(end, overlap_words) == end - overlap_words + 1
\* start = end - overlap_words
ct_NextStart(end, overlap_words) == end - overlap_words

\* words = text.split(); if len(words) <= max_words: return [text]
chunk_text_call(inp) ==
    /\ ct_pc = "idle"
    /\ ct_words' = inp.words
    /\ ct_max_words' = inp.max_words
    /\ ct_overlap' = inp.overlap_words
    /\ ct_start' = 0
    /\ IF Len(inp.words) <= inp.max_words
       THEN ct_chunks' = <<inp.words>> /\ ct_pc' = "done"
       ELSE ct_chunks' = <<>> /\ ct_pc' = "loop"
    /\ UNCHANGED <<regionVars, ingestVars, searchVars, batchVars>>

\* One iteration of `while start < len(words)`.
chunk_text_loop ==
    /\ ct_pc = "loop"
    /\ Len(ct_chunks) < MaxLoopIters
    /\ IF ct_start < Len(ct_words)
       THEN LET end == ct_End(ct_start, ct_max_words, Len(ct_words))
            IN  /\ ct_chunks' = Append(ct_chunks, PySlice(ct_words, ct_start, end))
                /\ IF end >= Len(ct_words)
                   THEN ct_pc' = "done" /\ ct_start' = ct_start
                   ELSE ct_pc' = "loop" /\ ct_start' = ct_NextStart(end, ct_overlap)
       ELSE ct_pc' = "done" /\ UNCHANGED <<ct_start, ct_chunks>>
    /\ UNCHANGED <<ct_words, ct_max_words, ct_overlap>>
    /\ UNCHANGED <<regionVars, ingestVars, searchVars, batchVars>>

\* return chunks: the caller takes the list and the chunker is free again.
chunk_text_return ==
    /\ ct_pc = "done"
    /\ ct_pc' = "idle"
    /\ ct_words' = <<>> /\ ct_max_words' = 0 /\ ct_overlap' = 0
    /\ ct_start' = 0 /\ ct_chunks' = <<>>
    /\ UNCHANGED <<regionVars, ingestVars, searchVars, batchVars>>

InitChunkVars ==
    /\ ct_pc = "idle"
    /\ ct_words = <<>> /\ ct_max_words = 0 /\ ct_overlap = 0
    /\ ct_start = 0 /\ ct_chunks = <<>>

(***************************************************************************)
(* create_chunks, ingest_to_postgres, ingest_file (ingest.py) and the      *)
(* embedding pass (generate_embeddings.py) on tables documents and chunks  *)
(***************************************************************************)
MaxBatch == 2        \* most documents in one ingested file

Cites == {"c1", "c2"}

\* A text is a version and a word count; word i of it is <<ver, i>>, so two
\* texts of one version share their common prefix. A chunk's text is the span
\* [ver, from, to) of such words.
Texts == {[ver |-> "v1", len |-> 500], [ver |-> "v1", len |-> 800],
          [ver |-> "v2", len |-> 800]}

InputDocs == [cite : Cites, text : Texts]

Batches == UNION {[1..n -> InputDocs] : n \in 1..MaxBatch}

RECURSIVE ct_Spans(_, _, _, _)
\* the loop of chunk_text on a text of n words: the word spans of the chunks
ct_Spans(start, n, max_words, overlap_words) ==
    IF start >= n THEN <<>>
    ELSE LET end == ct_End(start, max_words, n)
         IN  <<[from |-> start, to |-> end]>> \o
             (IF end >= n THEN <<>>
              ELSE ct_Spans(ct_NextStart(end, overlap_words), n, max_words,
                            overlap_words))

\* chunk_text(text) with the default arguments
chunk_text(n) ==
    IF n <= DefaultMaxWords THEN <<[from |-> 0, to |-> n]>>
    ELSE ct_Spans(0, n, DefaultMaxWords, DefaultOverlapWords)

\* chunk_id f"{doc.get('cite', uuid4().hex)}__chunk_{i}" is the pair
\* <<cite, i>>; for a document without the key cite it is <<u, i>> with u a
\* uuid drawn at that chunk.
cc_Id_Uuid(doc, uuids, k) == <<uuids[k], k - 1>>
cc_Id(doc, uuids, k) ==
    IF "cite" \in DOMAIN doc THEN <<doc.cite, k - 1>> ELSE <<uuids[k], k - 1>>

\* create_chunks: {**doc, 'text': ..., 'chunk_index': i, 'total_chunks': ...,
\* 'chunk_id': ...} for each chunk of chunk_text(text); [] for an empty text.
create_chunks_from(doc, uuids) ==
    IF doc.text.len = 0 THEN <<>>
    ELSE LET text_chunks == chunk_text(doc.text.len)
         IN  [k \in 1..Len(text_chunks) |->
                Stamp(doc,
                      [text |-> [ver |-> doc.text.ver, from |-> text_chunks[k].from,
                                 to |-> text_chunks[k].to],
                       chunk_index |-> k - 1,
                       total_chunks |-> Len(text_chunks),
                       chunk_id |-> cc_Id(doc, uuids, k)])]

\* create_chunks on a document that has a cite: no uuid is drawn
create_chunks(doc) == create_chunks_from(doc, <<>>)

\* embedding IS NULL
NoEmbedding == [ver |-> "None", from |-> 0, to |-> 0]

\* the part of record r on the fields of S
Restrict(r, S) == [f \in (DOMAIN r) \cap S |-> r[f]]

\* the keys of a document that have a column of their own in documents
DocumentOwnKeys == {"id", "source", "jurisdiction", "cite", "title", "text"}

\* the row of documents that the INSERT of a document proposes: id, cite,
\* full_text, the source, jurisdiction and title the document has, and in
\* metadata every other key of the document
DocumentRow(doc) ==
    Stamp(Restrict(doc, {"source", "jurisdiction", "title"}),
          [id |-> doc.cite, cite |-> doc.cite, full_text |-> doc.text,
           metadata |-> Restrict(doc, (DOMAIN doc) \ DocumentOwnKeys)])

\* the keys of a chunk that the INSERT copies to the column of that name
ChunkCopiedKeys ==
    {"source", "title", "title_num", "chapter", "source_url", "date",
     "region_type", "region_id", "region_name", "applies_to_country",
     "applies_to_state", "applies_to_counties", "primary_county",
     "applies_to_city", "jurisdiction_hierarchy"}

\* the row of chunks that the INSERT of a chunk proposes (embedding not set)
ChunkRow(chunk) ==
    Stamp(Restrict(chunk, ChunkCopiedKeys),
          [chunk_id |-> chunk.chunk_id, document_id |-> chunk.cite,
           chunk_index |-> chunk.chunk_index, chunk_text |-> chunk.text,
           cite |-> chunk.cite, embedding |-> NoEmbedding])

\* ON CONFLICT (cite) DO UPDATE SET ... of documents (lines 364-369)
DocumentSetList == {"source", "jurisdiction", "title", "full_text", "metadata"}

UpsertDocument_InsertOnly(table, row) == table (+) SetToBag({row})
\* INSERT INTO documents ... ON CONFLICT (cite) DO UPDATE SET ...
UpsertDocument(table, row) ==
    IF \E r \in BagToSet(table) : r.cite = row.cite
    THEN LET Set(r) == IF r.cite = row.cite
                       THEN Stamp(r, Restrict(row, DocumentSetList))
                       ELSE r
         IN  BagOfAll(Set, table)
    ELSE table (+) SetToBag({row})

\* ON CONFLICT (chunk_id) DO UPDATE SET ... of chunks (lines 394-407):
\* document_id, chunk_index, embedding, embedding_model, title_num, chapter,
\* source_url and date are not in the list
ChunkSetList ==
    {"chunk_text", "source", "cite", "title", "region_type", "region_id",
     "region_name", "applies_to_country", "applies_to_state",
     "applies_to_counties", "primary_county", "applies_to_city",
     "jurisdiction_hierarchy"}

UpsertChunk_InsertOnly(table, row) == table (+) SetToBag({row})
\* INSERT INTO chunks ... ON CONFLICT (chunk_id) DO UPDATE SET ...
UpsertChunk(table, row) ==
    IF \E r \in BagToSet(table) : r.chunk_id = row.chunk_id
    THEN LET Set(r) == IF r.chunk_id = row.chunk_id
                       THEN Stamp(r, Restrict(row, ChunkSetList))
                       ELSE r
         IN  BagOfAll(Set, table)
    ELSE table (+) SetToBag({row})

RECURSIVE InsertDocuments(_, _)
\* for doc in docs: cursor.execute(INSERT INTO documents ...)
InsertDocuments(table, docs) ==
    IF docs = <<>> THEN table
    ELSE InsertDocuments(UpsertDocument(table, DocumentRow(Head(docs))), Tail(docs))

RECURSIVE InsertChunks(_, _)
\* for chunk in chunks: cursor.execute(INSERT INTO chunks ...)
InsertChunks(table, list) ==
    IF list = <<>> THEN table
    ELSE InsertChunks(UpsertChunk(table, ChunkRow(Head(list))), Tail(list))

RECURSIVE AllChunks(_)
\* all_chunks.extend(create_chunks(doc)) for each document
AllChunks(docs) ==
    IF docs = <<>> THEN <<>> ELSE create_chunks(Head(docs)) \o AllChunks(Tail(docs))

\* history before the first ingestion
NeverIngested ==
    [c \in Cites |->
        [status |-> "never", text |-> [ver |-> "None", len |-> 0],
         doc |-> [cite |-> c, text |-> [ver |-> "None", len |-> 0]]]]

RECURSIVE Record(_, _)
\* history: the documents of the batch, in order. "again" is the same text
\* ingested at least twice and no other text ever.
Record(hist, docs) ==
    IF docs = <<>> THEN hist
    ELSE LET d == Head(docs)
             h == hist[d.cite]
             status == CASE h.status = "never" -> "once"
                         [] h.status = "changed" -> "changed"
                         [] h.text = d.text -> "again"
                         [] OTHER -> "changed"
         IN  Record([hist EXCEPT ![d.cite] =
                            [status |-> status, text |-> d.text, doc |-> d]],
                    Tail(docs))

\* ingest_file: the documents of a file are chunked and ingest_to_postgres
\* writes documents and chunks in one transaction, committed at the end.
ingest_file(docs) ==
    /\ documents' = InsertDocuments(documents, docs)
    /\ chunks' = InsertChunks(chunks, AllChunks(docs))
    /\ ingested' = Record(ingested, docs)
    /\ UNCHANGED <<batchVars, searchVars, chunkVars, regionVars, emVars>>

get_chunks_without_embeddings_All ==
    /\ em_pc = "idle"
    /\ chunks # EmptyBag
    /\ em_chunks' = {[chunk_id |-> r.chunk_id, text |-> r.chunk_text] :
                        r \in BagToSet(chunks)}
    /\ em_pc' = "selected"
    /\ UNCHANGED <<batchVars, searchVars, chunkVars, regionVars, storeVars, ingested>>
\* generate_embeddings.py main, first half: SELECT chunk_id, chunk_text FROM
\* chunks WHERE embedding IS NULL; with no row main returns.
get_chunks_without_embeddings ==
    /\ em_pc = "idle"
    /\ LET rows == {r \in BagToSet(chunks) : r.embedding = NoEmbedding}
       IN  IF rows = {}
           THEN UNCHANGED emVars
           ELSE /\ em_chunks' = {[chunk_id |-> r.chunk_id, text |-> r.chunk_text] :
                                    r \in rows}
                /\ em_pc' = "selected"
    /\ UNCHANGED <<batchVars, searchVars, chunkVars, regionVars, storeVars, ingested>>

\* The embedding of a text is identified by the text it was computed from.
Embed(text) == text

\* UPDATE chunks SET embedding = ... WHERE chunk_id = ...
SetEmbeddings(table, selected) ==
    LET Set(r) == IF \E c \in selected : c.chunk_id = r.chunk_id
                  THEN [r EXCEPT !.embedding =
                          Embed((CHOOSE c \in selected : c.chunk_id = r.chunk_id).text)]
                  ELSE r
    IN  BagOfAll(Set, table)

\* generate_embeddings.py main, second half: generate_embeddings_batch on the
\* selected texts, then update_embeddings and its commit.
update_embeddings ==
    /\ em_pc = "selected"
    /\ chunks' = SetEmbeddings(chunks, em_chunks)
    /\ em_pc' = "idle"
    /\ em_chunks' = {}
    /\ UNCHANGED <<batchVars, searchVars, chunkVars, regionVars, documents, ingested>>

InitIngestVars ==
    /\ documents = EmptyBag /\ chunks = EmptyBag
    /\ em_pc = "idle" /\ em_chunks = {}
    /\ ingested = NeverIngested

(***************************************************************************)
(* build_jurisdiction_filter and search_vector (search.py)                 *)
(***************************************************************************)
\* The ids of the region rows a search may find in the store.
SearchRegionIds == RegionIds \cup {"US"}

\* The parent edges the reference data may hold: each county in the state,
\* the state in the country, the city in either county, primary or not.
SearchRelationships ==
    {e \in [child_id : SearchRegionIds, parent_id : SearchRegionIds,
            is_primary : BOOLEAN, coverage_percentage : {70}] :
        \/ e.child_id = "GA" /\ e.parent_id = "US" /\ e.is_primary
        \/ e.child_id \in {"GA-GWINNETT", "GA-FULTON"} /\ e.parent_id = "GA"
                                                       /\ e.is_primary
        \/ e.child_id = "GA-ATLANTA" /\ e.parent_id \in {"GA-GWINNETT", "GA-FULTON"}}

\* the contents of tables regions and region_relationships a search runs on
SearchGraphs ==
    {g \in [regions : SUBSET SearchRegionIds,
            region_relationships : SUBSET SearchRelationships] :
        /\ \A e \in g.region_relationships :
              e.child_id \in g.regions /\ e.parent_id \in g.regions
        /\ \A e, f \in g.region_relationships :
              (e.child_id = f.child_id /\ e.parent_id = f.parent_id) => e = f}

\* The payload fields of an indexed chunk that a filter reads; "None" is a
\* field the point does not have.
Payloads ==
    [source : {"GA_CODE", "MUNICODE"},
     applies_to_country : {"US", "None"},
     applies_to_state : {"GA", "FL"},
     primary_county : {"None", "GA-GWINNETT", "GA-FULTON"},
     applies_to_city : {"None", "GA-ATLANTA"}]

\* FieldCondition(key=..., match=MatchValue(value=v)) is any = {v};
\* FieldCondition(key=..., match=MatchAny(any=ids)) is any = the ids
FieldCondition(key, any) == [key |-> key, any |-> any]

\* Filter(must=..., should=...); a list left out is None, kept as <<>>.
Filter(must, should) == [is_none |-> FALSE, must |-> must, should |-> should]

\* None in place of a Filter
NoFilter == [is_none |-> TRUE, must |-> <<>>, should |-> <<>>]

\* the index evaluating a condition on a payload
Holds(cond, payload) == payload[cond.key] \in cond.any

\* The index evaluating query_filter on a payload: no filter admits every
\* point; every must condition holds, and one of the should conditions when
\* there is any.
Matches(filter, payload) ==
    \/ filter.is_none
    \/ /\ \A i \in 1..Len(filter.must) : Holds(filter.must[i], payload)
       /\ \/ filter.should = <<>>
          \/ \E i \in 1..Len(filter.should) : Holds(filter.should[i], payload)

search_get_all_parent_counties_PrimaryOnly(region_id) ==
    {e.parent_id : e \in {f \in region_relationships :
        f.child_id = region_id /\ f.parent_id \in regions /\ f.is_primary
        /\ TypeOf(f.parent_id) = "COUNTY"}}
\* get_all_parent_counties of search.py: the ids of the COUNTY parents of
\* region_id (the list is used as the value set of a MatchAny)
search_get_all_parent_counties(region_id) ==
    {e.parent_id : e \in {f \in region_relationships :
        f.child_id = region_id /\ f.parent_id \in regions
        /\ TypeOf(f.parent_id) = "COUNTY"}}

RECURSIVE gi_Walks(_, _, _)
\* the while loop of get_region_hierarchy_ids: the lists it may end with
gi_Walks(current_id, visited, hierarchy) ==
    UNION {IF parents = <<>> \/ Len(hierarchy) >= MaxWalk THEN {hierarchy}
           ELSE gi_Walks(parents[1], visited \cup {current_id},
                         <<parents[1]>> \o hierarchy) :
           parents \in get_parents(current_id, visited)}

\* get_region_hierarchy_ids(region_id): the lists it may return
get_region_hierarchy_ids(region_id) == gi_Walks(region_id, {}, <<region_id>>)

\* next((r for r in hierarchy_ids if r.startswith('GA') and len(r) == 2), None)
bf_state_id(hierarchy_ids) ==
    IF \E i \in 1..Len(hierarchy_ids) : hierarchy_ids[i] = "GA" THEN "GA" ELSE "None"

\* if state_id: conditions.append(applies_to_state == state_id)
bf_StateCondition(hierarchy_ids) ==
    IF bf_state_id(hierarchy_ids) = "None" THEN <<>>
    ELSE <<FieldCondition("applies_to_state", {bf_state_id(hierarchy_ids)})>>

\* lines 141-149
bf_StateConditions(region_id, include_parents) ==
    <<FieldCondition("applies_to_state", {region_id})>> \o
    (IF include_parents THEN <<FieldCondition("applies_to_country", {"US"})>>
     ELSE <<>>)

bf_CountyConditions_NoState(region_id, include_parents, hierarchy_ids) ==
    <<FieldCondition("primary_county", {region_id})>>
\* lines 151-163
bf_CountyConditions(region_id, include_parents, hierarchy_ids) ==
    <<FieldCondition("primary_county", {region_id})>> \o
    (IF include_parents THEN bf_StateCondition(hierarchy_ids) ELSE <<>>)

\* lines 165-187
bf_CityConditions(region_id, include_parents, county_ids, hierarchy_ids) ==
    <<FieldCondition("applies_to_city", {region_id})>> \o
    (IF include_parents
     THEN (IF county_ids # {} THEN <<FieldCondition("primary_county", county_ids)>>
           ELSE <<>>) \o bf_StateCondition(hierarchy_ids)
     ELSE <<>>)

\* the conditions list at line 189, for each list the walk may return
bf_Conditions(region_id, include_parents) ==
    LET region_type == TypeOf(region_id)
    IN  CASE region_type = "COUNTRY" ->
                {<<FieldCondition("applies_to_country", {region_id})>>}
          [] region_type = "STATE" ->
                {bf_StateConditions(region_id, include_parents)}
          [] region_type = "COUNTY" ->
                {bf_CountyConditions(region_id, include_parents, h) :
                    h \in get_region_hierarchy_ids(region_id)}
          [] region_type = "CITY" ->
                {bf_CityConditions(region_id, include_parents,
                                   search_get_all_parent_counties(region_id), h) :
                    h \in get_region_hierarchy_ids(region_id)}
          [] OTHER -> {<<>>}

build_jurisdiction_filter_NoFallback(region_id, include_parents) ==
    IF region_id \notin regions THEN {NoFilter}
    ELSE {IF conditions # <<>> THEN Filter(<<>>, conditions) ELSE NoFilter :
            conditions \in bf_Conditions(region_id, include_parents)}
\* build_jurisdiction_filter(region_id, include_parents): the filters it may
\* return. No row: Filter(must=[applies_to_state == "GA"]); else
\* Filter(should=conditions) if conditions else None.
build_jurisdiction_filter(region_id, include_parents) ==
    IF region_id \notin regions
    THEN {Filter(<<FieldCondition("applies_to_state", {"GA"})>>, <<>>)}
    ELSE {IF conditions # <<>> THEN Filter(<<>>, conditions) ELSE NoFilter :
            conditions \in bf_Conditions(region_id, include_parents)}

\* build_jurisdiction_filter called on its own
build_jurisdiction_filter_call(region_id, include_parents) ==
    /\ bf_pc = "idle"
    /\ bf_region_id' = region_id
    /\ bf_include_parents' = include_parents
    /\ bf_filter' \in build_jurisdiction_filter(region_id, include_parents)
    /\ bf_pc' = "done"
    /\ UNCHANGED <<batchVars, chunkVars, regionVars, ingestVars, svVars, smVars, slVars>>

build_jurisdiction_filter_return ==
    /\ bf_pc = "done"
    /\ bf_pc' = "idle"
    /\ bf_region_id' = "None" /\ bf_include_parents' = TRUE
    /\ bf_filter' = NoFilter
    /\ UNCHANGED <<batchVars, chunkVars, regionVars, ingestVars, svVars, smVars, slVars>>

(***************************************************************************)
(* search_vector, log_search and main (search.py)                          *)
(***************************************************************************)
MaxHistory == 1      \* most rows of search_history

Queries == {"noise ordinance"}

\* --source and --region as given on the command line; "None" is not given
SourceFilters == {"None", "GA_CODE"}
RegionFilters == {"None"} \cup SearchRegionIds

\* --limit: the default, and one that cuts the result list
DefaultLimit == 10
Limits == {1, DefaultLimit}

\* The points of collection georgia_law.
Collection ==
    {p \in Payloads :
        /\ p.applies_to_country = "US"
        /\ \/ p.primary_county = "None" /\ p.applies_to_city = "None"
           \/ p.source = "MUNICODE" /\ p.applies_to_state = "GA"
              /\ p.primary_county = "GA-FULTON"}

\* lines 219-240: search_filter from the two filters
sv_search_filter_of(source_filter, region_filter, jurisdiction_filter) ==
    LET conditions == IF source_filter # "None"
                      THEN <<FieldCondition("source", {source_filter})>>
                      ELSE <<>>
    IN  IF region_filter # "None"
        THEN IF conditions # <<>>
             THEN Filter(conditions,
                         IF jurisdiction_filter.is_none THEN <<>>
                         ELSE jurisdiction_filter.should)
             ELSE jurisdiction_filter
        ELSE IF conditions # <<>> THEN Filter(conditions, <<>>) ELSE NoFilter

\* client.search(query_filter=search_filter, limit=limit): the nearest points
\* that the filter admits, at most limit of them; which of them are nearest
\* is the index's affair.
client_search(search_filter, limit) ==
    LET admitted == {p \in Collection : Matches(search_filter, p)}
    IN  IF Cardinality(admitted) <= limit THEN {admitted}
        ELSE {R \in SUBSET admitted : Cardinality(R) = limit}

\* search_vector: the assignments to its locals and its result
sv_Run(source_filter, region_filter, include_parents, limit) ==
    /\ sv_source_filter' = source_filter
    /\ sv_region_filter' = region_filter
    /\ \E jurisdiction_filter \in
            (IF region_filter # "None"
             THEN build_jurisdiction_filter(region_filter, include_parents)
             ELSE {NoFilter}) :
         /\ sv_jurisdiction_filter' = jurisdiction_filter
         /\ sv_search_filter' =
                sv_search_filter_of(source_filter, region_filter, jurisdiction_filter)
    /\ sv_results' \in client_search(sv_search_filter', limit)
    /\ sv_pc' = "done"

\* search_vector called on its own
search_vector(source_filter, region_filter, include_parents, limit) ==
    /\ sv_pc = "idle"
    /\ sv_Run(source_filter, region_filter, include_parents, limit)
    /\ UNCHANGED <<batchVars, chunkVars, regionVars, ingestVars, bfVars, smVars, slVars>>

search_vector_return ==
    /\ sv_pc = "done" /\ sm_exit = "None"
    /\ sv_pc' = "idle"
    /\ sv_source_filter' = "None" /\ sv_region_filter' = "None"
    /\ sv_jurisdiction_filter' = NoFilter /\ sv_search_filter' = NoFilter
    /\ sv_results' = {}
    /\ UNCHANGED <<batchVars, chunkVars, regionVars, ingestVars, bfVars, smVars, slVars>>

\* log_search: INSERT INTO search_history (query, source_filter,
\* results_count); column region_filter is left NULL
log_search(history, query, source_filter, results_count) ==
    Append(history, [query |-> query, source_filter |-> source_filter,
                     region_filter |-> "None", results_count |-> results_count])

\* main of search.py: load_model, search_vector, log_search, print_results,
\* return 0. An exception of load_model or of log_search is not caught.
main_search(query, source, region, region_only, limit, model_ok, log_ok) ==
    /\ sv_pc = "idle" /\ sm_exit = "None"
    /\ Len(search_history) < MaxHistory
    /\ sm_query' = query
    /\ IF ~model_ok
       THEN /\ sm_exit' = "raised" /\ sm_printed' = FALSE
            /\ UNCHANGED <<svVars, search_history>>
       ELSE /\ sv_Run(source, region, ~region_only, limit)
            /\ IF log_ok
               THEN /\ search_history' =
                          log_search(search_history, query, source,
                                     Cardinality(sv_results'))
                    /\ sm_printed' = TRUE
                    /\ sm_exit' = "0"
               ELSE /\ sm_exit' = "raised" /\ sm_printed' = FALSE
                    /\ UNCHANGED search_history
    /\ UNCHANGED <<batchVars, chunkVars, regionVars, ingestVars, bfVars, slVars>>

\* the process has ended; the next command starts afresh
main_search_exit ==
    /\ sm_exit # "None"
    /\ sm_exit' = "None" /\ sm_printed' = FALSE /\ sm_query' = "None"
    /\ sv_pc' = "idle"
    /\ sv_source_filter' = "None" /\ sv_region_filter' = "None"
    /\ sv_jurisdiction_filter' = NoFilter /\ sv_search_filter' = NoFilter
    /\ sv_results' = {}
    /\ UNCHANGED <<batchVars, chunkVars, regionVars, ingestVars, bfVars, search_history, slVars>>

(***************************************************************************)
(* search_laws (lawbot/cli/search.py) on table chunks                      *)
(***************************************************************************)
\* 1 - cosine distance, in hundredths: 0.5 and 0.9
Scores == {50, 90}

\* the constant score of the text search: 0.5 as score
TextSearchScore == 50

\* (text or '')[:1500]: the first 1500 characters of the chunk text
Truncate1500 == 1500
Prefix(text, n) == [of |-> text, chars |-> n]

\* one entry of formatted
FormatResult(row, score) ==
    [cite |-> row.cite, text |-> Prefix(row.chunk_text, Truncate1500),
     score |-> score]

\* what search_laws returns for the rows its query fetched. Vector search:
\* the score of a row is 1 - distance, and NULL for a row without embedding,
\* on which float(score) raises into the outer except and [] is returned.
\* Text search: every row has score 0.5.
sl_Formatted(use_vector_search, rows) ==
    IF use_vector_search
    THEN IF \E r \in rows : r.embedding = NoEmbedding THEN {{}}
         ELSE {{FormatResult(r, score[r]) : r \in rows} : score \in [rows -> Scores]}
    ELSE {{FormatResult(r, TextSearchScore) : r \in rows}}

\* config.region: not set, a state code, a county or city id
LawRegions == {"None", "GA", "GA-GWINNETT"}

\* the value of a column of a row, NULL for a key the document did not have
Column(r, f) == IF f \in DOMAIN r THEN r[f] ELSE "None"

\* WHERE 1=1 {region_filter}: no condition without a region, applies_to_state
\* for a region of two characters, region_id for one with a '-'
sl_Matching(region) ==
    {r \in BagToSet(chunks) :
        CASE region = "None" -> TRUE
          [] region \in {"GA", "FL"} -> Column(r, "applies_to_state") = region
          [] OTHER -> Column(r, "region_id") = region}

\* ORDER BY embedding <=> %s::vector LIMIT %s, with no condition on embedding.
\* The distance of a row without embedding is NULL and ascending order puts
\* NULL last: a sort of the table fetches the embedded rows first and fills
\* up to the limit with rows without embedding; a scan of the hnsw index
\* idx_chunk_embedding (init_db.py:190-193), which holds no NULL, fetches
\* embedded rows only. The sets of rows the query may fetch.
sl_VectorRows(matching, limit) ==
    LET embedded == {r \in matching : r.embedding # NoEmbedding}
        nulls == matching \ embedded
        room == Max(limit - Cardinality(embedded), 0)
    IN  {S \in SUBSET embedded : Cardinality(S) = Min(limit, Cardinality(embedded))}
        \cup {embedded \cup N : N \in {M \in SUBSET nulls :
                    Cardinality(M) = Min(room, Cardinality(nulls))}}

\* the text search: the rows that match a word, ORDER BY cite LIMIT %s
sl_TextRows(matching, limit) ==
    {S \in SUBSET matching : Cardinality(S) <= limit}

\* search_laws: the model is loaded and the query encoded, or that raises and
\* use_vector_search stays False; the connection is made, or that raises into
\* the outer except; the query runs with its WHERE clause and LIMIT.
search_laws(model_ok, db_ok, limit, region) ==
    /\ sl_pc = "idle"
    /\ sl_use_vector_search' = model_ok
    /\ sl_region' = region
    /\ sl_connected' = db_ok
    /\ IF ~db_ok THEN sl_results' = {}
       ELSE \E rows \in (IF model_ok THEN sl_VectorRows(sl_Matching(region), limit)
                                     ELSE sl_TextRows(sl_Matching(region), limit)) :
              sl_results' \in sl_Formatted(model_ok, rows)
    /\ sl_raised' = FALSE
    /\ sl_pc' = "done"
    /\ UNCHANGED <<batchVars, chunkVars, regionVars, ingestVars, bfVars, svVars, smVars>>

search_laws_return ==
    /\ sl_pc = "done"
    /\ sl_pc' = "idle"
    /\ sl_use_vector_search' = FALSE /\ sl_results' = {} /\ sl_raised' = FALSE
    /\ sl_region' = "None" /\ sl_connected' = FALSE
    /\ UNCHANGED <<batchVars, chunkVars, regionVars, ingestVars, bfVars, svVars, smVars>>

InitSearchVars ==
    /\ bf_pc = "idle" /\ bf_region_id = "None" /\ bf_include_parents = TRUE
    /\ bf_filter = NoFilter
    /\ sv_pc = "idle" /\ sv_source_filter = "None" /\ sv_region_filter = "None"
    /\ sv_jurisdiction_filter = NoFilter /\ sv_search_filter = NoFilter
    /\ sv_results = {}
    /\ search_history = <<>> /\ sm_query = "None" /\ sm_printed = FALSE
    /\ sm_exit = "None"
    /\ sl_pc = "idle" /\ sl_use_vector_search = FALSE /\ sl_results = {}
    /\ sl_raised = FALSE /\ sl_region = "None" /\ sl_connected = FALSE

(***************************************************************************)
(* main, ingest_file and ingest_to_postgres (ingest.py): the transaction   *)
(* of ingest_to_postgres is open from the first INSERT to conn.commit(),   *)
(* and an exception or a kill may end it after any number of INSERTs.      *)
(***************************************************************************)
\* files = [ga_code.jsonl, courtlistener_ga.jsonl, municode_gwinnett.jsonl]
AllFiles == 3

\* the first n elements of a list
Take(list, n) == SubSeq(list, 1, Min(n, Len(list)))

StatementsDone_Autocommit(documents_table, chunks_table, docs, list, done) ==
    [documents |-> InsertDocuments(documents_table, Take(docs, done)),
     chunks |-> InsertChunks(chunks_table, Take(list, Max(done - Len(docs), 0)))]
\* What the other connections see of a transaction that has executed `done`
\* of its INSERTs and has not committed, and what stays of it when the
\* connection is lost: nothing. psycopg2 opens a transaction at the first
\* execute and ingest_to_postgres commits once, at line 431.
StatementsDone(documents_table, chunks_table, docs, list, done) ==
    [documents |-> documents_table, chunks |-> chunks_table]

\* main: neither --all nor --source prints the help and returns 1; --source
\* without --source-type returns 1; else the loop over the files begins.
main_ingest(all, source, source_type) ==
    /\ im_pc = "idle"
    /\ IF (~all /\ ~source) \/ (~all /\ source /\ ~source_type)
       THEN /\ im_pc' = "exited" /\ im_exit' = "1"
            /\ UNCHANGED <<im_remaining, im_succeeded>>
       ELSE /\ im_pc' = "running"
            /\ im_remaining' = IF all THEN AllFiles ELSE 1
            /\ im_succeeded' = 0
            /\ UNCHANGED im_exit
    /\ UNCHANGED <<tx_docs, tx_chunks, tx_done>>
    /\ UNCHANGED <<chunkVars, regionVars, ingestVars, searchVars, geVars, toolVars>>

\* The file does not exist (main skips it, or ingest_file returns), or it has
\* no document: nothing is written.
ingest_file_skip ==
    /\ im_pc = "running" /\ im_remaining > 0
    /\ im_remaining' = im_remaining - 1
    /\ UNCHANGED <<im_pc, im_succeeded, im_exit, tx_docs, tx_chunks, tx_done>>
    /\ UNCHANGED <<chunkVars, regionVars, ingestVars, searchVars, geVars, toolVars>>

\* ingest_file up to the call of ingest_to_postgres and its connect
ingest_to_postgres_begin(docs) ==
    /\ im_pc = "running" /\ im_remaining > 0
    /\ im_pc' = "tx"
    /\ tx_docs' = docs
    /\ tx_chunks' = AllChunks(docs)
    /\ tx_done' = 0
    /\ UNCHANGED <<im_remaining, im_succeeded, im_exit>>
    /\ UNCHANGED <<chunkVars, regionVars, ingestVars, searchVars, geVars, toolVars>>

\* Both loops of INSERTs run to their end and conn.commit() makes them
\* visible; ingest_file returns to main's loop.
ingest_to_postgres_commit ==
    /\ im_pc = "tx"
    /\ tx_docs' = <<>> /\ tx_chunks' = <<>> /\ tx_done' = 0
    /\ documents' = InsertDocuments(documents, tx_docs)
    /\ chunks' = InsertChunks(chunks, tx_chunks)
    /\ ingested' = Record(ingested, tx_docs)
    /\ im_pc' = "running"
    /\ im_remaining' = im_remaining - 1
    /\ im_succeeded' = im_succeeded + 1
    /\ UNCHANGED im_exit
    /\ UNCHANGED <<toolVars, geVars, chunkVars, regionVars, emVars, searchVars>>

\* After `done` of the INSERTs an INSERT raises, or the process is killed,
\* before the commit: the exception leaves ingest_to_postgres, ingest_file
\* and main, and the connection goes without a commit.
ingest_to_postgres_raise(done) ==
    /\ im_pc = "tx"
    /\ tx_done' = done
    /\ LET seen == StatementsDone(documents, chunks, tx_docs, tx_chunks, done)
       IN  documents' = seen.documents /\ chunks' = seen.chunks
    /\ im_pc' = "exited"
    /\ im_exit' = "raised"
    /\ tx_docs' = <<>> /\ tx_chunks' = <<>>
    /\ UNCHANGED <<im_remaining, im_succeeded>>
    /\ UNCHANGED <<toolVars, geVars, chunkVars, regionVars, emVars, ingested, searchVars>>

\* the loop is over: return 0
main_ingest_return ==
    /\ im_pc = "running" /\ im_remaining = 0
    /\ im_pc' = "exited"
    /\ im_exit' = "0"
    /\ UNCHANGED <<im_remaining, im_succeeded, tx_docs, tx_chunks, tx_done>>
    /\ UNCHANGED <<chunkVars, regionVars, ingestVars, searchVars, geVars, toolVars>>

\* the process has ended; the next command starts afresh
main_ingest_exit ==
    /\ im_pc = "exited"
    /\ im_pc' = "idle" /\ im_exit' = "None"
    /\ im_remaining' = 0 /\ im_succeeded' = 0
    /\ tx_docs' = <<>> /\ tx_chunks' = <<>> /\ tx_done' = 0
    /\ UNCHANGED <<chunkVars, regionVars, ingestVars, searchVars, geVars, toolVars>>

InitIngestMainVars ==
    /\ im_pc = "idle" /\ im_exit = "None" /\ im_remaining = 0 /\ im_succeeded = 0
    /\ tx_docs = <<>> /\ tx_chunks = <<>> /\ tx_done = 0

(***************************************************************************)
(* Two ingest processes on one store. Each runs ingest_to_postgres in its  *)
(* own transaction; its INSERT ... ON CONFLICT statements are interleaved  *)
(* with the other's. A row written by a transaction stays locked until the *)
(* transaction ends: an INSERT on the same cite or chunk_id by the other   *)
(* transaction waits, and when each waits for the other the store ends one *)
(* of them with DeadlockDetected, which ingest.py does not catch.          *)
(***************************************************************************)
Procs == {1, 2}

\* The documents of the files the two processes ingest.
ConcurrentDocs ==
    {d \in InputDocs : d.text \in {[ver |-> "v1", len |-> 500],
                                   [ver |-> "v2", len |-> 800]}}

ConcurrentBatches == UNION {[1..n -> ConcurrentDocs] : n \in 1..MaxBatch}

\* The key of the row each INSERT writes, in the order of the two loops.
cw_Keys(docs) ==
    LET list == AllChunks(docs)
    IN  [i \in 1..Len(docs) |-> <<"documents", docs[i].cite>>] \o
        [i \in 1..Len(list) |-> <<"chunks", list[i].chunk_id>>]

\* The rows a process has written and not committed.
cw_Held(q) ==
    IF cw_pc[q] = "tx"
    THEN {cw_Keys(cw_docs[q])[i] : i \in 1..cw_next[q]}
    ELSE {}

\* p's next INSERT is on a row that q holds
cw_Waits(p, q) ==
    /\ cw_pc[p] = "tx"
    /\ cw_next[p] < Len(cw_Keys(cw_docs[p]))
    /\ cw_Keys(cw_docs[p])[cw_next[p] + 1] \in cw_Held(q)

\* ingest_file hands docs to ingest_to_postgres, which connects
cw_begin(p, docs) ==
    /\ cw_pc[p] = "idle"
    /\ cw_pc' = [cw_pc EXCEPT ![p] = "tx"]
    /\ cw_docs' = [cw_docs EXCEPT ![p] = docs]
    /\ cw_next' = [cw_next EXCEPT ![p] = 0]
    /\ UNCHANGED <<chunkVars, regionVars, ingestVars, searchVars, imVars, geVars,
                   idbVars, ccVars, rhVars>>

\* cursor.execute of the next INSERT: it returns once no other transaction
\* holds the row
cw_execute(p) ==
    /\ cw_pc[p] = "tx"
    /\ cw_next[p] < Len(cw_Keys(cw_docs[p]))
    /\ \A q \in Procs \ {p} : ~cw_Waits(p, q)
    /\ cw_next' = [cw_next EXCEPT ![p] = cw_next[p] + 1]
    /\ UNCHANGED <<cw_pc, cw_docs>>
    /\ UNCHANGED <<chunkVars, regionVars, ingestVars, searchVars, imVars, geVars,
                   idbVars, ccVars, rhVars>>

\* conn.commit() at line 431: the upserts take effect on the rows as the
\* transactions committed before have left them
cw_commit(p) ==
    /\ cw_pc[p] = "tx"
    /\ cw_next[p] = Len(cw_Keys(cw_docs[p]))
    /\ documents' = InsertDocuments(documents, cw_docs[p])
    /\ chunks' = InsertChunks(chunks, AllChunks(cw_docs[p]))
    /\ ingested' = Record(ingested, cw_docs[p])
    /\ cw_pc' = [cw_pc EXCEPT ![p] = "done"]
    /\ UNCHANGED <<cw_docs, cw_next>>
    /\ UNCHANGED <<chunkVars, regionVars, emVars, searchVars, imVars, geVars,
                   idbVars, ccVars, rhVars>>

\* cursor.execute raises DeadlockDetected: the transaction is rolled back,
\* the exception leaves ingest_to_postgres, ingest_file and main
cw_deadlock(p) ==
    /\ \E q \in Procs \ {p} : cw_Waits(p, q) /\ cw_Waits(q, p)
    /\ cw_pc' = [cw_pc EXCEPT ![p] = "raised"]
    /\ UNCHANGED <<cw_docs, cw_next>>
    /\ UNCHANGED <<chunkVars, regionVars, ingestVars, searchVars, imVars, geVars,
                   idbVars, ccVars, rhVars>>

InitConcurrentVars ==
    /\ cw_pc = [p \in Procs |-> "idle"]
    /\ cw_docs = [p \in Procs |-> <<>>]
    /\ cw_next = [p \in Procs |-> 0]

(***************************************************************************)
(* create_chunks called twice on one enriched document                     *)
(***************************************************************************)
\* uuid4().hex values
Uuids == {"u1", "u2"}

\* The fields enrich_with_jurisdiction has stamped on the document.
EnrichedJurisdictions ==
    {DefaultJurisdiction,
     [region_type |-> "COUNTY", region_id |-> "GA-GWINNETT",
      applies_to_country |-> "US", applies_to_state |-> "GA",
      applies_to_counties |-> <<"GA-GWINNETT">>, primary_county |-> "GA-GWINNETT",
      applies_to_city |-> "None", jurisdiction_hierarchy |-> <<"GA", "GA-GWINNETT">>],
     [region_type |-> "CITY", region_id |-> "GA-ATLANTA",
      applies_to_country |-> "US", applies_to_state |-> "GA",
      applies_to_counties |-> <<"GA-FULTON", "GA-GWINNETT">>,
      primary_county |-> "GA-FULTON", applies_to_city |-> "GA-ATLANTA",
      jurisdiction_hierarchy |-> <<"GA", "GA-FULTON", "GA-ATLANTA">>]}

EmptyText == [ver |-> "v1", len |-> 0]

\* The documents create_chunks is given: with or without the key cite, with
\* an empty text or not.
EnrichedDocs ==
    {Stamp(d, j) : d \in [cite : Cites, text : Texts \cup {EmptyText}]
                        \cup [text : Texts \cup {EmptyText}],
                   j \in EnrichedJurisdictions}

\* the uuids the call may draw, one for each chunk
cc_Uuids(doc) ==
    IF doc.text.len = 0 THEN {<<>>}
    ELSE [1..Len(chunk_text(doc.text.len)) -> Uuids]

create_chunks_call(doc, uuids) ==
    /\ cc_pc = "idle"
    /\ cc_doc' = doc
    /\ cc_first' = create_chunks_from(doc, uuids)
    /\ cc_pc' = "once"
    /\ UNCHANGED cc_second
    /\ UNCHANGED <<chunkVars, regionVars, ingestVars, searchVars, imVars, geVars,
                   idbVars, cwVars, rhVars>>

\* the same document is chunked again (the file is ingested again)
create_chunks_again(uuids) ==
    /\ cc_pc = "once"
    /\ cc_second' = create_chunks_from(cc_doc, uuids)
    /\ cc_pc' = "twice"
    /\ UNCHANGED <<cc_doc, cc_first>>
    /\ UNCHANGED <<chunkVars, regionVars, ingestVars, searchVars, imVars, geVars,
                   idbVars, cwVars, rhVars>>

create_chunks_done ==
    /\ cc_pc = "twice"
    /\ cc_pc' = "idle" /\ cc_doc' = [text |-> EmptyText]
    /\ cc_first' = <<>> /\ cc_second' = <<>>
    /\ UNCHANGED <<chunkVars, regionVars, ingestVars, searchVars, imVars, geVars,
                   idbVars, cwVars, rhVars>>

InitCreateChunksVars ==
    /\ cc_pc = "idle" /\ cc_doc = [text |-> EmptyText]
    /\ cc_first = <<>> /\ cc_second = <<>>

(***************************************************************************)
(* Documents with their metadata, ingested again under the same cite       *)
(***************************************************************************)
\* Two editions of a document: every key that is not the cite or the text
\* differs between them.
Editions ==
    {Stamp([source |-> "GA_CODE", title |-> "t1", title_num |-> "16",
            chapter |-> "5", source_url |-> "url1", date |-> "2023"],
           DefaultJurisdiction),
     Stamp([source |-> "MUNICODE", title |-> "t2", title_num |-> "17",
            chapter |-> "6", source_url |-> "url2", date |-> "2024"],
           CHOOSE j \in EnrichedJurisdictions : j.region_type = "COUNTY")}

\* the documents of the files, after enrich_with_jurisdiction
EditionDocs ==
    {Stamp(e, d) : e \in Editions,
                   d \in {x \in InputDocs : x.text.ver = "v1"}}

\* files of one document
EditionBatches == {<<d>> : d \in EditionDocs}

(***************************************************************************)
(* main of generate_embeddings.py, one call at a time                      *)
(***************************************************************************)
\* --batch-size values: one chunk a call, two chunks a call
BatchSizes == {1, 2}

\* the number of the batch that holds position i: range(0, len(texts), batch_size)
BatchOf(i, batch_size) == ((i - 1) \div batch_size) + 1

\* generate_embeddings_batch: the embeddings of the texts, and None (kept
\* as the absent embedding) for every text of a batch whose embeddings.create
\* raised
generate_embeddings_batch(texts, batch_size, failed_batches) ==
    [i \in 1..Len(texts) |->
        IF BatchOf(i, batch_size) \in failed_batches THEN NoEmbedding
        ELSE Embed(texts[i])]

\* main up to get_chunks_without_embeddings: without --all and --source it
\* returns 1; get_azure_client raises without credentials; with no row to
\* embed it returns 0. The SELECT returns the rows without embedding, or
\* with --source or --limit some of them, in an order of its choice.
main_embeddings(args_ok, credentials_ok, batch_size) ==
    /\ ge_pc = "idle"
    /\ ge_batch_size' = batch_size
    /\ ge_embeddings' = <<>> /\ ge_successful' = 0 /\ ge_failed' = 0
    /\ LET rows == {r \in BagToSet(chunks) : r.embedding = NoEmbedding}
           selected == {[chunk_id |-> r.chunk_id, text |-> r.chunk_text] : r \in rows}
       IN  CASE ~args_ok ->
                  ge_pc' = "exited" /\ ge_exit' = "1" /\ ge_chunks' = <<>>
             [] args_ok /\ ~credentials_ok ->
                  ge_pc' = "exited" /\ ge_exit' = "raised" /\ ge_chunks' = <<>>
             [] args_ok /\ credentials_ok /\ rows = {} ->
                  ge_pc' = "exited" /\ ge_exit' = "0" /\ ge_chunks' = <<>>
             [] OTHER ->
                  /\ ge_pc' = "loaded" /\ ge_exit' = "None"
                  /\ \E some \in (SUBSET selected) \ {{}} :
                        ge_chunks' \in AllOrders(some)
    /\ UNCHANGED <<chunkVars, regionVars, ingestVars, searchVars, imVars, toolVars>>

\* embeddings = generate_embeddings_batch(azure_client, texts, batch_size):
\* any of the calls may raise
main_generate_embeddings_batch ==
    /\ ge_pc = "loaded"
    /\ \E failed_batches \in SUBSET (1..BatchOf(Len(ge_chunks), ge_batch_size)) :
         ge_embeddings' =
            generate_embeddings_batch([i \in 1..Len(ge_chunks) |-> ge_chunks[i].text],
                                      ge_batch_size, failed_batches)
    /\ ge_pc' = "embedded"
    /\ UNCHANGED <<ge_batch_size, ge_chunks, ge_successful, ge_failed, ge_exit>>
    /\ UNCHANGED <<chunkVars, regionVars, ingestVars, searchVars, imVars, toolVars>>

\* the positions of the list whose UPDATE is tried
Tried(embeddings) == {i \in 1..Len(embeddings) : embeddings[i] # NoEmbedding}

\* update_embeddings(chunk_ids, embeddings) when the UPDATE at position
\* raises_at raises (0: none does). The loop counts a None as failed and
\* skips it, counts an UPDATE that raises as failed and goes on, and commits
\* at the end. The UPDATEs run in one transaction: once a statement has
\* raised, the server rejects every later statement of the transaction and
\* turns the COMMIT into a rollback, so the UPDATEs before it are lost and
\* those after it raise as well.
ue_Outcome(embeddings, raises_at) ==
    LET tried == Tried(embeddings)
        before == {i \in tried : i < raises_at}
    IN  IF raises_at \in tried
        THEN [successful |-> Cardinality(before),
              failed |-> Len(embeddings) - Cardinality(before),
              stored |-> {}]
        ELSE [successful |-> Cardinality(tried),
              failed |-> Len(embeddings) - Cardinality(tried),
              stored |-> tried]

\* update_embeddings and the return 0 of main
main_update_embeddings ==
    /\ ge_pc = "embedded"
    /\ \E raises_at \in {0} \cup Tried(ge_embeddings) :
         LET chunk_ids == [i \in 1..Len(ge_chunks) |-> ge_chunks[i].chunk_id]
             outcome == ue_Outcome(ge_embeddings, raises_at)
             Set(r) == IF \E i \in outcome.stored : chunk_ids[i] = r.chunk_id
                       THEN [r EXCEPT !.embedding =
                               ge_embeddings[CHOOSE i \in outcome.stored :
                                                chunk_ids[i] = r.chunk_id]]
                       ELSE r
         IN  /\ chunks' = BagOfAll(Set, chunks)
             /\ ge_successful' = outcome.successful
             /\ ge_failed' = outcome.failed
    /\ ge_pc' = "exited"
    /\ ge_exit' = "0"
    /\ UNCHANGED <<ge_batch_size, ge_chunks, ge_embeddings>>
    /\ UNCHANGED <<chunkVars, regionVars, documents, emVars, ingested, searchVars, imVars, toolVars>>

\* the process has ended; the next command starts afresh
main_embeddings_exit ==
    /\ ge_pc = "exited"
    /\ ge_pc' = "idle" /\ ge_exit' = "None" /\ ge_batch_size' = 0
    /\ ge_chunks' = <<>> /\ ge_embeddings' = <<>>
    /\ ge_successful' = 0 /\ ge_failed' = 0
    /\ UNCHANGED <<chunkVars, regionVars, ingestVars, searchVars, imVars, toolVars>>

InitEmbeddingMainVars ==
    /\ ge_pc = "idle" /\ ge_exit = "None" /\ ge_batch_size = 0
    /\ ge_chunks = <<>> /\ ge_embeddings = <<>>
    /\ ge_successful = 0 /\ ge_failed = 0

InitToolVars ==
    InitInitDbVars /\ InitConcurrentVars /\ InitCreateChunksVars /\ InitRecordsVars

InitBatchVars == InitIngestMainVars /\ InitEmbeddingMainVars /\ InitToolVars

InitChunk ==
    InitChunkVars /\ InitRegionVars /\ InitIngestVars /\ InitSearchVars /\ InitBatchVars

NextChunk ==
    \/ (ct_pc = "idle" /\ \E inp \in ChunkInputs : chunk_text_call(inp))
    \/ chunk_text_loop
    \/ chunk_text_return

SpecChunk == InitChunk /\ [][NextChunk]_vars

(***************************************************************************)
(* The resolver: the reference data is loaded at setup time, the ingest    *)
(* process then fills its cache and answers lookups one at a time.         *)
(***************************************************************************)
InitRegion ==
    InitChunkVars /\ InitRegionVars /\ InitIngestVars /\ InitSearchVars /\ InitBatchVars

NextRegion ==
    \/ (~cache_loaded /\ \E data \in Descriptions : load_regions(data))
    \/ load_regions_cache
    \/ \E region_id \in RegionIds : get_region_hierarchy_call(region_id)
    \/ get_region_hierarchy_loop
    \/ get_region_hierarchy_return
    \/ \E doc \in SourceDocuments : enrich_with_jurisdiction(doc)
    \/ enrich_return
    \/ (cache_loaded /\ \E region_id \in RegionIds :
                            get_region_hierarchy_ids_call(region_id))
    \/ get_region_hierarchy_ids_loop
    \/ get_region_hierarchy_ids_return

SpecRegion == InitRegion /\ [][NextRegion]_vars

\* The loops of a running call are always scheduled: the interpreter runs the
\* next iteration.
FairSpecRegion ==
    /\ SpecRegion
    /\ WF_vars(get_region_hierarchy_loop)
    /\ WF_vars(get_region_hierarchy_ids_loop)

(***************************************************************************)
(* The store: ingestion runs and embedding passes in any order.            *)
(***************************************************************************)
Init ==
    InitChunkVars /\ InitRegionVars /\ InitIngestVars /\ InitSearchVars /\ InitBatchVars

Next ==
    \/ \E docs \in Batches : ingest_file(docs)
    \/ get_chunks_without_embeddings
    \/ update_embeddings

Spec == Init /\ [][Next]_vars

(***************************************************************************)
(* The filter builder and search_vector, called one at a time on a loaded  *)
(* region store.                                                           *)
(***************************************************************************)
InitIdleResolver ==
    /\ cache_loaded = FALSE /\ regions_cache = {}
    /\ relationships_cache = [c \in {} |-> <<>>]
    /\ gh_pc = "idle" /\ gh_region_id = "None" /\ gh_hierarchy = <<>>
    /\ gh_visited = {} /\ gh_current_id = "None"
    /\ gi_pc = "idle" /\ gi_region_id = "None" /\ gi_hierarchy = <<>>
    /\ gi_visited = {} /\ gi_current_id = "None"
    /\ en_pc = "idle" /\ en_doc = [source |-> "None"]

InitSearch ==
    /\ InitChunkVars /\ InitIngestVars /\ InitSearchVars /\ InitIdleResolver
    /\ InitBatchVars
    /\ \E g \in SearchGraphs :
         /\ regions = g.regions
         /\ region_relationships = g.region_relationships

Calling == bf_pc # "idle" \/ sv_pc # "idle" \/ sm_exit # "None" \/ sl_pc # "idle"

NextSearch ==
    \/ (~Calling /\ \E region_id \in SearchRegionIds, include_parents \in BOOLEAN :
            build_jurisdiction_filter_call(region_id, include_parents))
    \/ build_jurisdiction_filter_return
    \/ (~Calling /\ \E source_filter \in SourceFilters, region_filter \in RegionFilters,
                       include_parents \in BOOLEAN, limit \in Limits :
            search_vector(source_filter, region_filter, include_parents, limit))
    \/ search_vector_return

SpecSearch == InitSearch /\ [][NextSearch]_vars

(***************************************************************************)
(* The search commands: search.py main and search_laws of the chat client, *)
(* one call at a time, on the reference regions and a populated chunk      *)
(* store.                                                                  *)
(***************************************************************************)
\* the region store of the commands: the reference data, whole or without
\* its city
ReferenceRelationships ==
    {e \in SearchRelationships : e.is_primary = (e.parent_id # "GA-GWINNETT")}

CliGraphs ==
    {[regions |-> R,
      region_relationships |->
          {e \in ReferenceRelationships : e.child_id \in R /\ e.parent_id \in R}] :
        R \in {SearchRegionIds, SearchRegionIds \ {"GA-ATLANTA"}}}

\* the document stores of the commands: empty, or one enriched document
\* ingested and any part of its chunks embedded
CliStores ==
    {[documents |-> EmptyBag, chunks |-> EmptyBag]} \cup
    UNION {LET rows == InsertChunks(EmptyBag, AllChunks(<<d>>))
               selected == {[chunk_id |-> r.chunk_id, text |-> r.chunk_text] :
                               r \in BagToSet(rows)}
           IN  {[documents |-> InsertDocuments(EmptyBag, <<d>>),
                 chunks |-> SetEmbeddings(rows, some)] : some \in SUBSET selected} :
           d \in {Stamp(x, j) : x \in InputDocs,
                                j \in {y \in EnrichedJurisdictions :
                                         y.region_type \in {"STATE", "COUNTY"}}}}

InitCli ==
    /\ InitChunkVars /\ InitSearchVars /\ InitIdleResolver /\ InitBatchVars
    /\ \E g \in CliGraphs :
         /\ regions = g.regions
         /\ region_relationships = g.region_relationships
    /\ \E store \in CliStores :
         /\ documents = store.documents
         /\ chunks = store.chunks
    /\ em_pc = "idle" /\ em_chunks = {}
    /\ ingested = NeverIngested

NextCli ==
    \/ (~Calling /\ \E query \in Queries, source \in SourceFilters,
                       region \in RegionFilters, region_only \in BOOLEAN,
                       limit \in Limits, model_ok \in BOOLEAN, log_ok \in BOOLEAN :
            main_search(query, source, region, region_only, limit, model_ok, log_ok))
    \/ main_search_exit
    \/ (~Calling /\ \E model_ok \in BOOLEAN, db_ok \in BOOLEAN, limit \in Limits,
                       region \in LawRegions :
            search_laws(model_ok, db_ok, limit, region))
    \/ search_laws_return

SpecCli == InitCli /\ [][NextCli]_vars

(***************************************************************************)
(* The ingest command: processes run one after another on the store.       *)
(***************************************************************************)
InitWriter == Init

NextWriter ==
    \/ \E all \in BOOLEAN, source \in BOOLEAN, source_type \in BOOLEAN :
          main_ingest(all, source, source_type)
    \/ ingest_file_skip
    \/ \E docs \in Batches : ingest_to_postgres_begin(docs)
    \/ ingest_to_postgres_commit
    \/ \E done \in 0..(Len(tx_docs) + Len(tx_chunks)) : ingest_to_postgres_raise(done)
    \/ main_ingest_return
    \/ main_ingest_exit

SpecWriter == InitWriter /\ [][NextWriter]_vars

(***************************************************************************)
(* The embedding command: processes run one after another on a store that  *)
(* an ingestion has filled.                                                *)
(***************************************************************************)
\* the stores after the ingestion of one file
EmbedStores ==
    {[documents |-> InsertDocuments(EmptyBag, docs),
      chunks |-> InsertChunks(EmptyBag, AllChunks(docs))] : docs \in Batches}

InitEmbed ==
    /\ InitChunkVars /\ InitRegionVars /\ InitSearchVars /\ InitBatchVars
    /\ \E store \in EmbedStores :
         /\ documents = store.documents
         /\ chunks = store.chunks
    /\ em_pc = "idle" /\ em_chunks = {}
    /\ ingested = NeverIngested

NextEmbed ==
    \/ \E args_ok \in BOOLEAN, credentials_ok \in BOOLEAN, batch_size \in BatchSizes :
          main_embeddings(args_ok, credentials_ok, batch_size)
    \/ main_generate_embeddings_batch
    \/ main_update_embeddings
    \/ main_embeddings_exit

SpecEmbed == InitEmbed /\ [][NextEmbed]_vars

(***************************************************************************)
(* init_db.py run again and again on a region store that starts empty.     *)
(***************************************************************************)
InitLoad == Init

NextLoad ==
    \/ \E data \in LoadDescriptions : main_init_db(data)
    \/ main_init_db_exit

SpecLoad == InitLoad /\ [][NextLoad]_vars

(***************************************************************************)
(* One ingest process and its cache, while init_db.py loads regions into   *)
(* the store at any time.                                                  *)
(***************************************************************************)
\* what the loads bring: the regions of the reference data and three edges
CacheDescriptions ==
    {[regions |-> {r}, relationships |-> <<>>] : r \in RegionIds}
    \cup {[regions |-> {}, relationships |-> <<e>>] :
            e \in {[child_id |-> "GA-ATLANTA", parent_id |-> "GA-FULTON",
                     is_primary |-> TRUE, coverage_percentage |-> 70],
                    [child_id |-> "GA-ATLANTA", parent_id |-> "GA-GWINNETT",
                     is_primary |-> FALSE, coverage_percentage |-> 30],
                    [child_id |-> "GA-FULTON", parent_id |-> "GA",
                     is_primary |-> TRUE, coverage_percentage |-> 70]}}

InitCache == Init

NextCache ==
    \/ \E data \in CacheDescriptions : load_regions(data)
    \/ (rh_pc = "idle" /\ load_regions_cache)
    \/ (rh_pc = "idle" /\ \E doc \in SourceDocuments : enrich_with_jurisdiction(doc))
    \/ enrich_return
    \/ \E region_id \in RegionIds : get_region_hierarchy_records(region_id)
    \/ \E k \in 1..MaxWalk : caller_modify(k)
    \/ get_region_hierarchy_records_return

SpecCache == InitCache /\ [][NextCache]_vars


(***************************************************************************)
(* Files of one document with its metadata, ingested one after another.    *)
(***************************************************************************)
InitUpsert == Init

NextUpsert == \E docs \in EditionBatches : ingest_file(docs)

SpecUpsert == InitUpsert /\ [][NextUpsert]_vars


(***************************************************************************)
(* create_chunks on enriched documents, each chunked twice.                *)
(***************************************************************************)
InitCreateChunks == Init

NextCreateChunks ==
    \/ \E doc \in EnrichedDocs : \E uuids \in cc_Uuids(doc) :
          create_chunks_call(doc, uuids)
    \/ \E uuids \in cc_Uuids(cc_doc) : create_chunks_again(uuids)
    \/ create_chunks_done

SpecCreateChunks == InitCreateChunks /\ [][NextCreateChunks]_vars


(***************************************************************************)
(* Two ingest processes started on an empty store, each on one file.       *)
(***************************************************************************)
InitConcurrent == Init

NextConcurrent ==
    \/ \E p \in Procs, docs \in ConcurrentBatches : cw_begin(p, docs)
    \/ \E p \in Procs : cw_execute(p)
    \/ \E p \in Procs : cw_commit(p)
    \/ \E p \in Procs : cw_deadlock(p)

SpecConcurrent == InitConcurrent /\ [][NextConcurrent]_vars

(***************************************************************************)
(* Properties of chunk_text                                                *)
(***************************************************************************)
Sizes(list) == [i \in 1..Len(list) |-> Len(list[i])]
DropFirst(s, k) == SubSeq(s, k + 1, Len(s))
LastWords(s, k) == SubSeq(s, Len(s) - k + 1, Len(s))

RECURSIVE Reassemble(_, _)
\* chunk 0, then every later chunk without its first k words
Reassemble(list, k) ==
    IF Len(list) = 0 THEN <<>>
    ELSE IF Len(list) = 1 THEN list[1]
    ELSE Reassemble(SubSeq(list, 1, Len(list) - 1), k)
            \o DropFirst(list[Len(list)], k)

OverlapsBy(list, k) ==
    \A i \in 2..Len(list) :
        /\ Len(list[i]) >= k
        /\ Len(list[i - 1]) >= k
        /\ SubSeq(list[i], 1, k) = LastWords(list[i - 1], k)

ValidLongCall ==
    /\ ct_pc = "done"
    /\ Len(ct_words) > ct_max_words
    /\ 0 <= ct_overlap /\ ct_overlap < ct_max_words

\* C8: for a text longer than max_words and 0 <= overlap_words < max_words,
\* the returned chunks overlap pairwise by overlap_words words and chunk 0
\* followed by the later chunks without their first overlap_words words is the
\* original word sequence.
C8_ChunksCoverText ==
    ValidLongCall =>
        /\ Len(ct_chunks) >= 2
        /\ OverlapsBy(ct_chunks, ct_overlap)
        /\ Reassemble(ct_chunks, ct_overlap) = ct_words

C8_Witness ==
    /\ ValidLongCall
    /\ ct_overlap >= 1
    /\ Len(ct_chunks) >= 3
    /\ ct_words # LongText
    /\ \E i, j \in 1..Len(ct_words) : ct_words[i] # ct_words[j]

IsWorkedExample ==
    /\ ct_pc = "done"
    /\ ct_words = LongText
    /\ ct_max_words = DefaultMaxWords
    /\ ct_overlap = DefaultOverlapWords

\* C9 as stated: max_words = 750, overlap_words = 75 on a 2000-word text gives
\* chunks of 750, 750 and 500 words, each later chunk starting with the last
\* 75 words of the one before.
C9_SizesAsStated ==
    IsWorkedExample =>
        /\ Sizes(ct_chunks) = <<750, 750, 500>>
        /\ OverlapsBy(ct_chunks, 75)

\* C9 amended: the three chunks have 750, 750 and 650 words (the windows start
\* at words 0, 675 and 1350), each later chunk starting with the last 75 words
\* of the one before.
C9_SizesAmended ==
    IsWorkedExample =>
        /\ Sizes(ct_chunks) = <<750, 750, 650>>
        /\ OverlapsBy(ct_chunks, 75)
        /\ ct_chunks[2][1] = 676 /\ ct_chunks[3][1] = 1351

C9_Witness == IsWorkedExample /\ Len(ct_chunks) = 3

\* C10: a call with overlap_words >= max_words on a text longer than max_words
\* is rejected: it never enters the loop and never returns chunks.
C10_BadOverlapRejected ==
    (ct_pc # "idle" /\ Len(ct_words) > ct_max_words /\ ct_overlap >= ct_max_words)
        => ct_pc \notin {"loop", "done"}

\* C10, the other half: such a call does not build a list longer than the text
\* has words.
C10_BadOverlapBounded ==
    (ct_pc # "idle" /\ Len(ct_words) > ct_max_words /\ ct_overlap >= ct_max_words)
        => Len(ct_chunks) <= Len(ct_words)

(***************************************************************************)
(* Properties of the resolver                                              *)
(***************************************************************************)
ParentEdges(child) == {e \in region_relationships : e.child_id = child}

\* The best edges of a child: its primary edges when it has one, else its
\* edges of highest coverage_percentage.
BestEdges(child) ==
    LET edges == ParentEdges(child)
    IN  IF \E e \in edges : e.is_primary
        THEN {e \in edges : e.is_primary}
        ELSE {e \in edges : \A f \in edges :
                                f.coverage_percentage <= e.coverage_percentage}

BestParents(child) == {e.parent_id : e \in BestEdges(child)}

RECURSIVE BestAncestorsWithin(_, _)
BestAncestorsWithin(S, k) ==
    IF k = 0 THEN S
    ELSE BestAncestorsWithin(S \cup UNION {BestParents(c) : c \in S}, k - 1)

BestAncestors(id) == BestAncestorsWithin(BestParents(id), Cardinality(RegionIds))

BestEdgeAcyclic == \A id \in RegionIds : id \notin BestAncestors(id)

\* C4: on every graph, cyclic or not, a started walk of get_region_hierarchy
\* and of get_region_hierarchy_ids ends with a list returned.
C4_WalkTerminates ==
    /\ (gh_pc = "walk") ~> (gh_pc = "done")
    /\ (gi_pc = "walk") ~> (gi_pc = "done")

C4_Witness ==
    /\ gh_pc = "done"
    /\ Len(gh_hierarchy) >= 2
    /\ gh_region_id \in BestAncestors(gh_region_id)
FollowsBestEdges(hierarchy) ==
    \A i \in 1..(Len(hierarchy) - 1) : hierarchy[i] \in BestParents(hierarchy[i + 1])

\* C3: when the best-edge subgraph is acyclic and the queried id is in the
\* cache, get_region_hierarchy ends with a list whose last element is the
\* queried region, whose every element is the best-edge parent of the next,
\* and whose first element is a root (it has no parent edge); while it runs
\* the list never grows beyond the number of cached regions.
C3_RootToLeaf ==
    (gh_pc # "idle" /\ gh_region_id \in regions_cache /\ BestEdgeAcyclic) =>
        /\ Len(gh_hierarchy) >= 1
        /\ Len(gh_hierarchy) <= Cardinality(regions_cache)
        /\ gh_hierarchy[Len(gh_hierarchy)] = gh_region_id
        /\ FollowsBestEdges(gh_hierarchy)
        /\ gh_pc = "done" => ParentEdges(gh_hierarchy[1]) = {}

C3_Witness ==
    /\ gh_pc = "done"
    /\ Len(gh_hierarchy) = 3
    /\ Cardinality(ParentEdges(gh_region_id)) >= 1
    /\ BestEdgeAcyclic

\* C5: for an id the cache does not have get_region_hierarchy returns [], and
\* enrichment of a document that resolves to such an id stamps the default:
\* STATE, GA, state GA, country US, no county, no city, empty hierarchy.
C5_UnknownRegionDefaults ==
    /\ (gh_pc = "done" /\ gh_region_id \notin regions_cache) => gh_hierarchy = <<>>
    /\ (en_pc = "done" /\ detect_region_from_source(en_doc) \notin regions_cache) =>
          /\ en_doc.region_type = "STATE"
          /\ en_doc.region_id = "GA"
          /\ en_doc.applies_to_state = "GA"
          /\ en_doc.applies_to_country = "US"
          /\ en_doc.applies_to_counties = <<>>
          /\ en_doc.primary_county = "None"
          /\ en_doc.applies_to_city = "None"
          /\ en_doc.jurisdiction_hierarchy = <<>>

C5_Witness ==
    /\ en_pc = "done"
    /\ detect_region_from_source(en_doc) = "GA-ATLANTA"
    /\ "GA-ATLANTA" \notin regions_cache
    /\ "GA-FULTON" \in regions_cache
    /\ en_doc.region_id = "GA"

\* A and B are county parents of city, the edge to A primary, the edge to B not.
TwoCountyCity(city, A, B) ==
    /\ TypeOf(city) = "CITY" /\ TypeOf(A) = "COUNTY" /\ TypeOf(B) = "COUNTY"
    /\ A # B
    /\ \E e \in ParentEdges(city) : e.parent_id = A /\ e.is_primary
    /\ \E e \in ParentEdges(city) : e.parent_id = B /\ ~e.is_primary

\* C6: for a city with county parents A (primary) and B (not primary), the
\* enrichment of a document of that city sets primary_county to A, whatever
\* the two coverage percentages and the order of the rows.
C6_PrimaryCountyWins ==
    en_pc = "done" =>
        \A A, B \in RegionIds :
            (/\ detect_region_from_source(en_doc) \in regions_cache
             /\ TwoCountyCity(detect_region_from_source(en_doc), A, B))
            => en_doc.primary_county = A

C6_Witness ==
    /\ en_pc = "done"
    /\ TwoCountyCity("GA-ATLANTA", "GA-FULTON", "GA-GWINNETT")
    /\ detect_region_from_source(en_doc) = "GA-ATLANTA"
    /\ \E e, f \in ParentEdges("GA-ATLANTA") :
          /\ e.is_primary /\ ~f.is_primary
          /\ e.coverage_percentage < f.coverage_percentage
    /\ en_doc.primary_county = "GA-FULTON"
    /\ en_doc.applies_to_counties = <<"GA-FULTON", "GA-GWINNETT">>

\* C7, for get_region_hierarchy (ingest.py)
C7_IngestFollowsBestEdge == FollowsBestEdges(gh_hierarchy)

\* C7: at every step of the upward walk, in get_region_hierarchy and in
\* get_region_hierarchy_ids, the parent followed is the primary parent when
\* the region has one and else its parent of highest coverage_percentage.
C7_BestEdgeFollowed ==
    /\ FollowsBestEdges(gh_hierarchy)
    /\ FollowsBestEdges(gi_hierarchy)

(***************************************************************************)
(* Properties of the store                                                 *)
(***************************************************************************)
RECURSIVE Sum(_, _)
Sum(f, S) == IF S = {} THEN 0
             ELSE LET x == CHOOSE x \in S : TRUE IN f[x] + Sum(f, S \ {x})

\* the number of rows of a table that belong to a cite
RowsOf(table, cite) == Sum(table, {r \in BagToSet(table) : r.cite = cite})

\* the number of rows of chunks with a given chunk_id
RowsWithId(chunk_id) ==
    Sum(chunks, {r \in BagToSet(chunks) : r.chunk_id = chunk_id})

\* C1: when only one and the same document has been ingested under a cite,
\* once or several times, in one run or in several, documents holds one row
\* of that cite and chunks holds total_chunks rows of it, one for each
\* chunk_index.
C1_IngestIdempotent ==
    \A cite \in Cites :
        ingested[cite].status \in {"once", "again"} =>
            LET list == create_chunks([cite |-> cite, text |-> ingested[cite].text])
            IN  /\ RowsOf(documents, cite) = 1
                /\ RowsOf(chunks, cite) = Len(list)
                /\ \A k \in 1..Len(list) : RowsWithId(list[k].chunk_id) = 1

C1_Witness ==
    /\ ingested["c1"].status = "again"
    /\ ingested["c1"].text.len = 800
    /\ RowsOf(chunks, "c1") = 2
    /\ ingested["c2"].status = "changed"

\* C2: a step that changes the chunk_text of a stored chunk that has an
\* embedding clears that embedding (only an unchanged text keeps it).
C2_ChangedTextClearsEmbedding ==
    [][\A r \in BagToSet(chunks) : \A q \in BagToSet(chunks') :
          (/\ q.chunk_id = r.chunk_id
           /\ r.embedding # NoEmbedding
           /\ q.chunk_text # r.chunk_text)
          => q.embedding = NoEmbedding]_vars

\* C2, the consequence: no stored embedding belongs to a text other than the
\* chunk's current text.
C2_NoStaleEmbedding ==
    \A r \in BagToSet(chunks) :
        r.embedding # NoEmbedding => r.embedding = Embed(r.chunk_text)

(***************************************************************************)
(* Properties of the filter builder and of search_vector                   *)
(***************************************************************************)
RECURSIVE AncestorsUpTo(_, _)
AncestorsUpTo(ids, n) ==
    IF n = 0 THEN ids
    ELSE AncestorsUpTo(ids \cup {e.parent_id : e \in {f \in region_relationships :
                                                        f.child_id \in ids}}, n - 1)

\* the states a region lies in: the STATE regions above it
OwningStates(id) ==
    {s \in AncestorsUpTo({id}, Cardinality(SearchRegionIds)) : TypeOf(s) = "STATE"}

\* the counties that are parents of a region
CountyParents(id) ==
    {e.parent_id : e \in {f \in region_relationships :
        f.child_id = id /\ TypeOf(f.parent_id) = "COUNTY"}}

\* the parents of a region lie in the same states
StateAgreed(id) ==
    \A e, f \in {g \in region_relationships : g.child_id = id} :
        OwningStates(e.parent_id) = OwningStates(f.parent_id)

C14_FilterIsConjunction ==
    (sv_pc = "done" /\ sv_source_filter # "None" /\ sv_region_filter # "None")
    => \A p \in Payloads :
         Matches(sv_search_filter, p)
            => p.source = sv_source_filter /\ Matches(sv_jurisdiction_filter, p)

\* C14, for a region id that has a row in regions
C14_KnownRegionConjunction ==
    (sv_pc = "done" /\ sv_source_filter # "None" /\ sv_region_filter \in regions)
    => \A p \in Payloads :
         Matches(sv_search_filter, p)
            <=> p.source = sv_source_filter /\ Matches(sv_jurisdiction_filter, p)

(***************************************************************************)
(* Properties of the search commands                                       *)
(***************************************************************************)
\* the results the vector search can return on the stored chunks
VectorResults ==
    {FormatResult(row, score) : row \in BagToSet(chunks), score \in Scores}

\* C15, first half: when the model cannot be loaded or the query cannot be
\* encoded, search_laws ends without raising and has used the text search.
C15_FallbackReturns ==
    (sl_pc = "done" /\ ~sl_use_vector_search)
    => /\ ~sl_raised
       /\ \A r \in sl_results : r.score = TextSearchScore

\* C15: the results search_laws returns from the text search are told apart
\* from vector results: none of them is a result that the vector search could
\* return on the same store.
C15_FallbackTagged ==
    (sl_pc = "done" /\ ~sl_use_vector_search)
    => \A r \in sl_results : r \notin VectorResults

\* C16, what the code does log: when main returns 0 the last row of
\* search_history has the query, the source filter and the result count.
C16_QueryAndCountLogged ==
    (sm_exit = "0")
    => /\ sm_printed
       /\ search_history # <<>>
       /\ LET row == search_history[Len(search_history)]
          IN  /\ row.query = sm_query
              /\ row.source_filter = sv_source_filter
              /\ row.results_count = Cardinality(sv_results)

\* C16: every search that has run is logged with its query, its source
\* filter, its region filter and its result count, and its results are
\* printed or returned whether or not the logging succeeded.
C16_SearchLogged ==
    /\ (sm_exit # "None" /\ sv_pc = "done")
       => /\ sm_printed
          /\ search_history # <<>>
          /\ LET row == search_history[Len(search_history)]
             IN  /\ row.query = sm_query
                 /\ row.source_filter = sv_source_filter
                 /\ row.region_filter = sv_region_filter
                 /\ row.results_count = Cardinality(sv_results)
    /\ sl_pc = "done" => search_history # <<>>

(***************************************************************************)
(* Properties of the batch commands                                        *)
(***************************************************************************)
\* the chunks that create_chunks makes of a stored document
ChunksOfRow(d) == Range(create_chunks([cite |-> d.cite, text |-> d.full_text]))

\* C17: whatever run of ingest_to_postgres was interrupted, and after how
\* many of its INSERTs, the store holds for every document row a chunk row
\* for each chunk of the document's text, and for every chunk row the
\* document row of its cite.
C17_NoPartialDocument ==
    /\ \A d \in BagToSet(documents) :
          \A ch \in ChunksOfRow(d) :
             \E r \in BagToSet(chunks) :
                r.chunk_id = ch.chunk_id /\ r.chunk_text = ch.text
    /\ \A r \in BagToSet(chunks) :
          \E d \in BagToSet(documents) : d.cite = r.cite

C17_Witness ==
    /\ im_pc = "exited" /\ im_exit = "raised" /\ tx_done >= 2
    /\ documents # EmptyBag

\* C18: in every step, a chunk that has an embedding keeps that embedding,
\* and the embedding pass selects only chunks whose embedding is null; so the
\* embedding of a chunk goes from absent to present at most once.
C18_EmbeddingWrittenOnce ==
    [][/\ \A r \in BagToSet(chunks) :
             r.embedding # NoEmbedding
                => \E q \in BagToSet(chunks') :
                      q.chunk_id = r.chunk_id /\ q.embedding = r.embedding
       /\ (em_pc = "idle" /\ em_pc' = "selected")
             => \A c \in em_chunks' :
                   \A r \in BagToSet(chunks) :
                      r.chunk_id = c.chunk_id => r.embedding = NoEmbedding]_vars

\* an embedding pass has selected its rows while the store holds an embedded
\* chunk of a document that was ingested again with another text
C18_Witness ==
    /\ em_pc = "selected"
    /\ \E r \in BagToSet(chunks) :
          r.embedding # NoEmbedding /\ ingested[r.cite].status = "changed"

\* position i of the run's chunks has an embedding in the store
Stored(i) ==
    \E r \in BagToSet(chunks) :
        r.chunk_id = ge_chunks[i].chunk_id /\ r.embedding # NoEmbedding

RunPositions == 1..Len(ge_chunks)

\* the embedding run has gone through update_embeddings
RunEnded == ge_pc = "exited" /\ ge_chunks # <<>>

\* C19, for failures of the embedding call alone: when the failures counted
\* are the chunks of the failed batches, those chunks have a null embedding,
\* every other chunk of the run has its embedding stored and the counts are
\* the numbers of chunks with and without embedding.
C19_EmbeddingFailuresIsolated ==
    (RunEnded /\ ge_failed = Cardinality({i \in RunPositions :
                                            ge_embeddings[i] = NoEmbedding}))
    => /\ ge_exit = "0"
       /\ \A i \in RunPositions : Stored(i) <=> ge_embeddings[i] # NoEmbedding
       /\ ge_successful = Cardinality({i \in RunPositions : Stored(i)})

\* C19: after an embedding run in which embedding calls or store updates
\* failed, the run has ended normally, the chunks of a failed batch have a
\* null embedding, the number of successes reported is the number of chunks
\* of the run that have their embedding stored, and the number of failures
\* reported is the number of chunks of the run left without embedding.
C19_FailuresIsolated ==
    RunEnded
    => /\ ge_exit = "0"
       /\ \A i \in RunPositions : ge_embeddings[i] = NoEmbedding => ~Stored(i)
       /\ ge_successful = Cardinality({i \in RunPositions : Stored(i)})
       /\ ge_failed = Cardinality({i \in RunPositions : ~Stored(i)})

\* C20: an embedding run that attempted chunks exits with status 0 when at
\* least one chunk succeeded and with another status when none succeeded.
C20_ExitStatus ==
    RunEnded
    => /\ ge_successful >= 1 => ge_exit = "0"
       /\ ge_successful = 0 => ge_exit # "0"

\* C20, for ingest.py: a run that ingested at least one file exits with
\* status 0.
C20_IngestExitStatus ==
    (im_pc = "exited" /\ im_succeeded >= 1) => im_exit = "0"

(***************************************************************************)
(* C21: a load whose description has a relationship naming a region that   *)
(* is neither in the description nor in the store fails with a             *)
(* referential-integrity error, and leaves regions and                     *)
(* region_relationships as they were before the call.                      *)
(***************************************************************************)
Dangling(data, regs) ==
    \E i \in 1..Len(data.relationships) :
        \/ data.relationships[i].child_id \notin (regs \cup data.regions)
        \/ data.relationships[i].parent_id \notin (regs \cup data.regions)

C21_DanglingEdgeRejected ==
    [][(idb_exit = "None" /\ idb_exit' # "None" /\ Dangling(idb_data', regions))
         => /\ idb_error' = "ForeignKeyViolation"
            /\ idb_exit' = "1"
            /\ regions' = regions
            /\ region_relationships' = region_relationships]_vars

\* A failed load of a new region and two relationships, the first of which
\* the store would have accepted.
C21_Witness ==
    /\ idb_error = "ForeignKeyViolation"
    /\ idb_data.regions # {} /\ ~(idb_data.regions \subseteq regions)
    /\ Len(idb_data.relationships) = 2
    /\ ~Dangling([idb_data EXCEPT !.relationships = <<idb_data.relationships[1]>>],
                 regions)
    /\ Dangling(idb_data, regions)

(***************************************************************************)
(* C22: after any sequence of region loads, every child region has at most *)
(* one parent edge with is_primary = true.                                 *)
(***************************************************************************)
PrimaryEdges(child) ==
    {e \in region_relationships : e.child_id = child /\ e.is_primary}

C22_OnePrimaryParent ==
    \A child \in RegionIds : Cardinality(PrimaryEdges(child)) <= 1

(***************************************************************************)
(* C23: two ingest processes that write documents with the same cite to    *)
(* one store concurrently leave exactly one documents row for the cite and *)
(* at most one chunks row per chunk_id, and both processes complete.       *)
(***************************************************************************)
SharedCites ==
    {d.cite : d \in Range(cw_docs[1])} \cap {d.cite : d \in Range(cw_docs[2])}

\* the rows: one per cite that a process has committed, never two per key
C23_OneRowPerKey ==
    /\ \A cite \in Cites :
          /\ RowsOf(documents, cite) <= 1
          /\ (\E p \in Procs : cw_pc[p] = "done"
                                /\ cite \in {d.cite : d \in Range(cw_docs[p])})
                => RowsOf(documents, cite) = 1
    /\ \A r \in BagToSet(chunks) : RowsWithId(r.chunk_id) = 1

C23_OneRowPerKey_Witness ==
    /\ \A p \in Procs : cw_pc[p] = "done"
    /\ SharedCites # {}
    /\ cw_docs[1] # cw_docs[2]

\* the processes: neither is ended by the store
C23_BothComplete ==
    \A p \in Procs : (SharedCites # {} /\ cw_pc[p] # "idle") => cw_pc[p] # "raised"

(***************************************************************************)
(* C24: for a document with a cite, create_chunks gives chunk i the id     *)
(* cite + "__chunk_" + i for i in 0..total_chunks-1, a second call on the  *)
(* same document gives the same ids, and every chunk carries the           *)
(* jurisdiction fields of its document.                                    *)
(***************************************************************************)
JurisdictionFields == DOMAIN DefaultJurisdiction

IdsOf(list) == {list[k].chunk_id : k \in 1..Len(list)}

C24_EveryDocument ==
    cc_pc = "twice" => IdsOf(cc_first) = IdsOf(cc_second)

(***************************************************************************)
(* C25: after a document is ingested again under its cite, the documents   *)
(* row and the chunks rows of its chunk ids hold the incoming values of    *)
(* every non-key field other than the embedding: text, title, source,      *)
(* source_url, date, title_num, chapter and the jurisdiction fields.       *)
(***************************************************************************)
\* the row of table whose key column has the value key
RowWith(table, column, key) == CHOOSE r \in BagToSet(table) : r[column] = key

\* the rows written for the latest version of each cite agree with it on
\* the given columns
LatestOverwrites(document_columns, chunk_columns) ==
    \A cite \in Cites :
        ingested[cite].status # "never" =>
            LET d == ingested[cite].doc
                list == create_chunks(d)
            IN  /\ \A f \in document_columns :
                      RowWith(documents, "cite", cite)[f] = DocumentRow(d)[f]
                /\ \A k \in 1..Len(list) : \A f \in chunk_columns :
                      RowWith(chunks, "chunk_id", list[k].chunk_id)[f]
                        = ChunkRow(list[k])[f]

C25_MutableFieldsOverwritten ==
    LatestOverwrites({"full_text", "title", "source", "metadata"},
                     {"chunk_text", "title", "source", "source_url", "date",
                      "title_num", "chapter"} \cup JurisdictionFields)

\* the columns of the two SET lists take the incoming values
C25_SetListOverwritten ==
    LatestOverwrites({"full_text", "title", "source", "metadata"},
                     {"chunk_text", "title", "source"} \cup JurisdictionFields)

C25_SetListOverwritten_Witness ==
    /\ ingested["c1"].status = "changed"
    /\ ingested["c1"].doc.title = "t2"
    /\ \E r \in BagToSet(chunks) : r.cite = "c1" /\ r.title = "t2" /\ r.chapter = "5"

(***************************************************************************)
(* C29: after any sequence of ingestions, the chunks rows of a cite are    *)
(* exactly the chunks of the version ingested last: no row with            *)
(* chunk_index at or beyond the new total_chunks remains.                  *)
(***************************************************************************)
C29_NoStaleChunks ==
    \A cite \in Cites :
        ingested[cite].status # "never" =>
            LET list == create_chunks(ingested[cite].doc)
            IN  \A r \in BagToSet(chunks) :
                    r.cite = cite =>
                        /\ r.chunk_index < Len(list)
                        /\ r.chunk_text = list[r.chunk_index + 1].text

\* the rows of the latest version are all there, with its text
C29_LatestChunksStored ==
    \A cite \in Cites :
        ingested[cite].status # "never" =>
            LET list == create_chunks(ingested[cite].doc)
            IN  \A k \in 1..Len(list) :
                    \E r \in BagToSet(chunks) :
                        r.chunk_id = list[k].chunk_id /\ r.chunk_text = list[k].text

(***************************************************************************)
(* C26: the resolver cache is built once per process: after the first      *)
(* load_regions_cache, a further call and any change of the store leave    *)
(* the cache unchanged, and every later lookup answers from that snapshot. *)
(***************************************************************************)
C26_CacheBuiltOnce ==
    [][cache_loaded =>
         /\ UNCHANGED cacheVars
         /\ (en_pc' = "done" /\ en_pc = "idle") =>
               en_doc'.region_id \in regions_cache \cup {"GA"}
         /\ (rh_pc' = "done" /\ rh_pc = "idle") =>
               \A k \in 1..Len(rh_result') : rh_result'[k].id \in regions_cache]_vars

\* the store has got a region and an edge the cache has not, and a lookup
\* of that region has answered from the cache
C26_Witness ==
    /\ cache_loaded
    /\ "GA-ATLANTA" \in regions \ regions_cache
    /\ \E e \in region_relationships : e.child_id \notin DOMAIN relationships_cache
    /\ en_pc = "done" /\ en_doc.source = "MUNICODE"
    /\ en_doc.jurisdiction = {"Atlanta"} /\ en_doc.region_id = "GA"

(***************************************************************************)
(* C27: get_region_hierarchy, get_all_parent_counties and                  *)
(* enrich_with_jurisdiction leave the region cache and the relationship    *)
(* cache unchanged; the records of a returned hierarchy are copies, and    *)
(* changing them does not change the cache.                                *)
(***************************************************************************)
LookupStep ==
    \/ en_pc' # en_pc
    \/ rh_pc' # rh_pc
    \/ rh_result' # rh_result

C27_LookupsLeaveCache ==
    [][LookupStep => (UNCHANGED cacheVars /\ rc_heap' = rc_heap
                                          /\ rc_heap' = CacheRecords)]_vars

\* a hierarchy of three records was returned, a parent's record carries the
\* edge, and the caller has changed a record
C27_Witness ==
    /\ rh_pc = "done" /\ Len(rh_result) = 3
    /\ "is_primary" \in DOMAIN rh_Value(rc_heap, rh_result[1])
    /\ \E k \in 1..Len(rh_result) : "touched" \in DOMAIN rh_Value(rc_heap, rh_result[k])

(***************************************************************************)
(* C28: for every region graph, graphs with cyclic or self-loop parent     *)
(* edges included, the list get_region_hierarchy returns holds each region *)
(* at most once.                                                           *)
(***************************************************************************)
NoRepeats(list) == \A i, j \in 1..Len(list) : list[i] = list[j] => i = j

C28_EachRegionOnce == gh_pc = "done" => NoRepeats(gh_hierarchy)

\* the same for get_region_hierarchy_ids of search.py
C28_EachRegionIdOnce == gi_pc = "done" => NoRepeats(gi_hierarchy)

\* on a graph whose best edges have no cycle the list has no repeats
C28_AcyclicEachRegionOnce ==
    (gh_pc = "done" /\ BestEdgeAcyclic) => NoRepeats(gh_hierarchy)

(***************************************************************************)
(* C30: on the vector path of search_laws a chunk without embedding never  *)
(* appears in the results and never makes the search fail: when a chunk    *)
(* that matches the region filter has an embedding, the search returns a   *)
(* non-empty list, whatever the limit and the number of chunks without     *)
(* embedding.                                                              *)
(***************************************************************************)
VectorSearchDone == sl_pc = "done" /\ sl_connected /\ sl_use_vector_search

EmbeddedMatching == {r \in sl_Matching(sl_region) : r.embedding # NoEmbedding}

C30_NullEmbeddingsHarmless ==
    VectorSearchDone =>
        /\ EmbeddedMatching # {} => sl_results # {}
        /\ \A x \in sl_results :
               \E r \in EmbeddedMatching : x = FormatResult(r, x.score)

\* no result comes from a chunk without embedding
C30_NullEmbeddingsNotReturned ==
    VectorSearchDone =>
        \A x \in sl_results : \E r \in EmbeddedMatching : x = FormatResult(r, x.score)

====
